---- MODULE Spec2Model ----
(***************************************************************************)
(* Model of scraper_enhanced.py: distributor resolution, plan fetch,       *)
(* plan filtering and the processing loop of main(); the solar feed-in     *)
(* fields of a plan and the solar credit of the calculator sheet.          *)
(***************************************************************************)
EXTENDS Integers, Sequences, FiniteSets, TLC

\* ------------------------------------------------------------------------
\* Bounds
\* ------------------------------------------------------------------------
MaxDist == 2      \* distinct distributor ids the meta API may mention
MaxItems == 2     \* items in the meta response
MaxAreas == 2     \* supplyArea references per meta item
MaxCount == 2     \* largest plan count a probe reports
MaxFetch == 1     \* plans returned by one fetch_plans call
MaxBatch == 3     \* plans in a batch handed directly to filter_plans
MaxPeriods == 2   \* tariff periods of a primary contract

DistIds == 1..MaxDist

SeqsUpTo(S, n) == UNION {[1..k -> S] : k \in 0..n}

\* ------------------------------------------------------------------------
\* Raw plans.  shape says which of the lookups plan["planData"],
\* ["contract"], [0] and plan_data["fuelType"] succeed ("nullPlanData": the
\* key is present with the JSON value null); tariffPeriod holds,
\* per tariff period of the primary contract, the length of its demandCharge
\* list (0 also stands for an absent key); controlledLoad is the length of
\* the controlledLoad list; dist is the "_distributor_name" tag.
\* ------------------------------------------------------------------------
NA == [kind |-> "N/A", of |-> 0]
Auto == [kind |-> "Auto", of |-> 0]
MetaName(id) == [kind |-> "meta", of |-> id]
IdName(id) == [kind |-> "ID", of |-> id]

Shapes == {"ok", "noFuelType", "noPlanData", "nullPlanData", "noContract",
           "emptyContract"}

WellFormedPlans ==
    {[shape |-> s, tariffPeriod |-> tp, controlledLoad |-> cl, dist |-> NA] :
        s \in {"ok", "noFuelType"},
        tp \in SeqsUpTo(0..1, MaxPeriods),
        cl \in 0..1}

MalformedPlans ==
    {[shape |-> s, tariffPeriod |-> <<>>, controlledLoad |-> 0, dist |-> NA] :
        s \in {"noPlanData", "nullPlanData", "noContract", "emptyContract"}}

RawPlans == WellFormedPlans \cup MalformedPlans

\* batches handed directly to filter_plans (fuelType is not read by it)
BatchPlans == {p \in RawPlans : p.shape # "noFuelType"}

\* plans the plans endpoint returns in the full run (a sample of RawPlans)
FetchablePlans ==
    {p \in RawPlans :
        /\ p.shape # "noContract"
        /\ p.tariffPeriod \in {<<>>, <<1>>}}

\* plan["planData"]["contract"][0] raises KeyError / TypeError / IndexError
ContractLookupRaises(plan) ==
    plan.shape \in {"noPlanData", "nullPlanData", "noContract", "emptyContract"}

plan_has_demand_charge_first(plan) ==
    /\ plan.tariffPeriod # <<>>
    /\ plan.tariffPeriod[1] > 0

plan_has_demand_charge(plan) ==
    \E t \in 1..Len(plan.tariffPeriod) : plan.tariffPeriod[t] > 0

plan_has_controlled_load(plan) ==
    plan.controlledLoad > 0

NewStats(n) ==
    [total |-> n, demand_filtered |-> 0, controlled_load_filtered |-> 0, kept |-> 0]

\* One iteration of the for-loop of filter_plans over st = [filtered, stats,
\* raised]; raised is set when a gate's lookup raises.
filter_body_no_continue(st, plan, incl_cl, incl_demand) ==
    IF (~incl_demand \/ ~incl_cl) /\ ContractLookupRaises(plan)
    THEN [st EXCEPT !.raised = TRUE]
    ELSE LET d == ~incl_demand /\ plan_has_demand_charge(plan)
             c == ~incl_cl /\ plan_has_controlled_load(plan)
         IN [filtered |-> IF d \/ c THEN st.filtered ELSE Append(st.filtered, plan),
             stats |-> [st.stats EXCEPT
                          !.demand_filtered = @ + (IF d THEN 1 ELSE 0),
                          !.controlled_load_filtered = @ + (IF c THEN 1 ELSE 0)],
             raised |-> FALSE]

filter_body_drop_uncounted(st, plan, incl_cl, incl_demand) ==
    IF (~incl_demand \/ ~incl_cl) /\ ContractLookupRaises(plan)
    THEN [st EXCEPT !.raised = TRUE]
    ELSE IF ~incl_demand /\ plan_has_demand_charge(plan)
    THEN [st EXCEPT !.stats.demand_filtered = @ + 1]
    ELSE IF ~incl_cl /\ plan_has_controlled_load(plan)
    THEN st
    ELSE [st EXCEPT !.filtered = Append(@, plan)]

filter_body(st, plan, incl_cl, incl_demand) ==
    IF ~incl_demand /\ ContractLookupRaises(plan)
    THEN [st EXCEPT !.raised = TRUE]
    ELSE IF ~incl_demand /\ plan_has_demand_charge(plan)
    THEN [st EXCEPT !.stats.demand_filtered = @ + 1]
    ELSE IF ~incl_cl /\ ContractLookupRaises(plan)
    THEN [st EXCEPT !.raised = TRUE]
    ELSE IF ~incl_cl /\ plan_has_controlled_load(plan)
    THEN [st EXCEPT !.stats.controlled_load_filtered = @ + 1]
    ELSE [st EXCEPT !.filtered = Append(@, plan)]

VARIABLES
    pc,                       \* position of the run
    failure,                  \* message / exception that ended the run
    postcode, mode, argDist,  \* command line: postcode, --dist
    no_filter,                \* --no-filter
    include_controlled_load,  \* --controlled-load, or the answer to the prompt
    include_demand,           \* filter_plans argument
    distributors, discovered, \* result of fetch_distributors; has it returned
    i,                        \* position of the running for-loop
    probed,                   \* probes issued so far: [id, resp, count]
    available, prompted,      \* select_distributor_interactive locals
    selected,
    fetched,                  \* fetch_plans calls so far: [id, ok, result]
    distributor_names, all_raw_plans,
    plans, filtered, stats,   \* filter_plans: argument and locals
    filtered_plans, all_plans_data, errors,
    requested,                \* kinds of HTTP requests issued so far
    warnings,                 \* "Failed to process plan" warnings printed
    solarFit,                 \* contract["solarFit"] of the plan examined
    row,                      \* solar fields of the row process_plan builds
    tiers, sheet,             \* calculator sheet: parsed tiers, columns H-J
    export, credit,           \* cell B5 (tenths of kWh) and column Q
    answer,                   \* last line typed at the distributor prompt
    meta,                     \* body of the meta response examined
    contract,                 \* primary contract of the plan examined
    charges,                  \* rate and charge fields of the plan's row
    cells,                    \* calculator sheet: columns E-H, L-O of the row
    inputs, costs             \* cells B4, B6-B8 and columns P, R, S

vars == <<pc, failure, postcode, mode, argDist, no_filter,
          include_controlled_load, include_demand, distributors, discovered,
          i, probed, available, prompted, selected, fetched,
          distributor_names, all_raw_plans, plans, filtered, stats,
          filtered_plans, all_plans_data, errors, requested, warnings,
          solarFit, row, tiers, sheet, export, credit, answer, meta,
          contract, charges, cells, inputs, costs>>

cmdline == <<postcode, mode, argDist, no_filter>>
resolver == <<distributors, discovered, probed, available, prompted, selected>>
fetcher == <<fetched, distributor_names, all_raw_plans>>
filterer == <<plans, filtered, stats, include_demand>>
processor == <<filtered_plans, all_plans_data, errors>>
solar == <<solarFit, row, tiers, sheet, export, credit>>
calc == <<meta, contract, charges, cells, inputs, costs>>

\* ------------------------------------------------------------------------
\* Solar feed-in tariff (FIT): extraction of the row fields by process_plan,
\* the description text, its parsing by the calculator sheet and the solar
\* credit the sheet computes.
\*
\* A JSON number of the API response is kept with the text Python gives it:
\*   kind "int",   v       : the integer v,             str -> "10"
\*   kind "float", v       : v tenths (one decimal),    str -> "3.0", "44.0"
\*   kind "tiny",  v       : v * 1e-05,                 str -> "5e-05"
\* Text is a sequence of characters.  Parsed floats are counted in tenths,
\* rounded rates in hundredths, credits (kWh x c/kWh) in hundredths.
\* ------------------------------------------------------------------------
MaxFits == 2      \* entries of contract["solarFit"]
MaxTiers == 3     \* singleTariffRates items over all entries of one contract

Num(k, v) == [kind |-> k, v |-> v]

None == [kind |-> "None", v |-> 0]

Prices == {Num("int", 0), Num("int", 10), Num("float", 30), Num("tiny", 5)}

Volumes == {Num("int", 0), Num("int", 8)}

Rates == {None, Num("float", 440)}

Exports == {5, 12, 20}

TariffRates == [unitPrice : Prices, volume : Volumes, fit : 1..MaxFits]

Heads == [type : {"R", "G"}, rate : Rates]

\* the entries of one solarFit list: entry n has the head heads[n] and, in
\* their order, the singleTariffRates items of flat that belong to it
solar_fit_list(heads, flat) ==
    [n \in DOMAIN heads |->
        LET own == SelectSeq(flat, LAMBDA sr : sr.fit = n) IN
          [type |-> heads[n].type, rate |-> heads[n].rate,
           singleTariffRates |->
               [k \in DOMAIN own |->
                   [unitPrice |-> own[k].unitPrice, volume |-> own[k].volume]]]]

gt0(n) == n.v > 0

Micro(n) ==
    CASE n.kind = "int" -> n.v * 100000
      [] n.kind = "float" -> n.v * 10000
      [] n.kind = "tiny" -> n.v

round2(n) == (Micro(n) + 500) \div 1000

Range(s) == {s[n] : n \in DOMAIN s}

min(s) == CHOOSE x \in Range(s) : \A y \in Range(s) : Micro(x) <= Micro(y)

max(s) == CHOOSE x \in Range(s) : \A y \in Range(s) : Micro(x) >= Micro(y)

RECURSIVE Flatten(_)
Flatten(ss) == IF ss = <<>> THEN <<>> ELSE Head(ss) \o Flatten(Tail(ss))

skip_entry_never(fit) == FALSE

skip_entry(fit) == fit.type = "G"

entry_rates(fit) ==
    IF skip_entry(fit) THEN <<>>
    ELSE IF fit.rate # None THEN <<fit.rate>>
    ELSE [n \in DOMAIN fit.singleTariffRates |-> fit.singleTariffRates[n].unitPrice]

_collect_solar_fit_rates(solar_fits) ==
    SelectSeq(Flatten([n \in DOMAIN solar_fits |-> entry_rates(solar_fits[n])]), gt0)

extract_solar_fit_min(solar_fits) ==
    LET non_zero == _collect_solar_fit_rates(solar_fits) IN
      IF non_zero # <<>> THEN round2(min(non_zero)) ELSE 0

extract_solar_fit_max(solar_fits) ==
    LET non_zero == _collect_solar_fit_rates(solar_fits) IN
      IF non_zero # <<>> THEN round2(max(non_zero)) ELSE 0

Digit == <<"0", "1", "2", "3", "4", "5", "6", "7", "8", "9">>

RECURSIVE str_int(_)
str_int(n) ==
    IF n < 10 THEN <<Digit[n + 1]>>
    ELSE str_int(n \div 10) \o <<Digit[(n % 10) + 1]>>

str(n) ==
    CASE n.kind = "int" -> str_int(n.v)
      [] n.kind = "float" -> str_int(n.v \div 10) \o <<".">> \o str_int(n.v % 10)
      [] n.kind = "tiny" -> str_int(n.v) \o <<"e", "-", "0", "5">>

NoSolarFit ==
    <<"N", "o", " ", "s", "o", "l", "a", "r", " ", "f", "e", "e", "d", "-",
      "i", "n", " ", "t", "a", "r", "i", "f", "f">>

cPerKWh == <<"c", "/", "k", "W", "h">>

kWhPerDay == <<"k", "W", "h", "/", "d", "a", "y", ")">>

format_tier(price, volume) ==
    IF gt0(volume)
    THEN str(price) \o cPerKWh \o <<" ", "(", "f", "i", "r", "s", "t", " ">>
           \o str(volume) \o kWhPerDay
    ELSE str(price) \o cPerKWh

RECURSIVE join(_, _)
join(sep, parts) ==
    IF Len(parts) = 1 THEN parts[1]
    ELSE parts[1] \o sep \o join(sep, Tail(parts))

entry_details(fit) ==
    IF skip_entry(fit) THEN <<>>
    ELSE LET priced == SelectSeq(fit.singleTariffRates,
                                 LAMBDA sr : gt0(sr.unitPrice)) IN
           [n \in DOMAIN priced |-> format_tier(priced[n].unitPrice, priced[n].volume)]

extract_solar_fit_details(solar_fits) ==
    LET details == Flatten([n \in DOMAIN solar_fits |-> entry_details(solar_fits[n])]) IN
      IF solar_fits = <<>> \/ details = <<>> THEN NoSolarFit
      ELSE join(<<";", " ">>, details)

StartsWith(s, p) == Len(s) >= Len(p) /\ SubSeq(s, 1, Len(p)) = p

Drop(s, n) == SubSeq(s, n + 1, Len(s))

RECURSIVE split(_, _)
split(s, sep) ==
    IF \E k \in 1..Len(s) : StartsWith(Drop(s, k - 1), sep)
    THEN LET k == CHOOSE k \in 1..Len(s) :
                    /\ StartsWith(Drop(s, k - 1), sep)
                    /\ \A j \in 1..(k - 1) : ~StartsWith(Drop(s, j - 1), sep)
         IN <<SubSeq(s, 1, k - 1)>> \o split(Drop(s, k - 1 + Len(sep)), sep)
    ELSE <<s>>

RECURSIVE lstrip(_)
lstrip(s) == IF s # <<>> /\ Head(s) = " " THEN lstrip(Tail(s)) ELSE s

RECURSIVE rstrip(_)
rstrip(s) ==
    IF s # <<>> /\ s[Len(s)] = " " THEN rstrip(SubSeq(s, 1, Len(s) - 1)) ELSE s

strip(s) == rstrip(lstrip(s))

\* length of the longest prefix matching [\d.]*
RECURSIVE span(_)
span(s) ==
    IF s # <<>> /\ Head(s) \in Range(Digit) \cup {"."} THEN 1 + span(Tail(s)) ELSE 0

RECURSIVE int_of(_)
int_of(s) ==
    IF s = <<>> THEN 0
    ELSE int_of(SubSeq(s, 1, Len(s) - 1)) * 10
           + ((CHOOSE d \in 1..10 : Digit[d] = s[Len(s)]) - 1)

\* float() of decimal text with at most one digit after the point, in tenths
float(s) ==
    IF "." \notin Range(s) THEN int_of(s) * 10
    ELSE LET k == CHOOSE k \in DOMAIN s : s[k] = "." IN
           int_of(SubSeq(s, 1, k - 1)) * 10 + int_of(Drop(s, k))

\* re.match(r"([\d.]+)c/kWh(?:\s*\(first\s+([\d.]+)kWh/day\))?", part):
\* neither "c" nor "k" is in [\d.], so the greedy groups never back off.
re_match(part) ==
    LET n1 == span(part)
        r1 == Drop(part, n1)
    IN IF n1 = 0 \/ ~StartsWith(r1, cPerKWh)
       THEN [matched |-> FALSE, group1 |-> <<>>, group2 |-> <<>>]
       ELSE LET r2 == lstrip(Drop(r1, Len(cPerKWh)))
                r3 == Drop(r2, 6)
                r4 == lstrip(r3)
                n2 == span(r4)
                capped == /\ StartsWith(r2, <<"(", "f", "i", "r", "s", "t">>)
                          /\ Len(r4) < Len(r3)
                          /\ n2 > 0
                          /\ StartsWith(Drop(r4, n2), kWhPerDay)
            IN [matched |-> TRUE,
                group1 |-> SubSeq(part, 1, n1),
                group2 |-> IF capped THEN SubSeq(r4, 1, n2) ELSE <<>>]

\* tiers.sort(key=lambda t: (t[1] == 0, -t[1])): a stable sort
KeyLeq(a, b) ==
    \/ b.volume = 0
    \/ a.volume # 0 /\ a.volume >= b.volume

RECURSIVE sort(_)
sort(ts) ==
    IF ts = <<>> THEN <<>>
    ELSE LET front == sort(SubSeq(ts, 1, Len(ts) - 1))
             x == ts[Len(ts)]
             k == Cardinality({n \in DOMAIN front : KeyLeq(front[n], x)})
         IN SubSeq(front, 1, k) \o <<x>> \o Drop(front, k)

parse_part(part) ==
    LET m == re_match(strip(part)) IN
      IF m.matched
      THEN <<[rate |-> float(m.group1),
              volume |-> IF m.group2 # <<>> THEN float(m.group2) ELSE 0]>>
      ELSE <<>>

_parse_solar_fit_tiers(details) ==
    IF details = <<>> \/ details = NoSolarFit THEN <<>>
    ELSE LET parts == split(details, <<";", " ">>) IN
           sort(Flatten([n \in DOMAIN parts |-> parse_part(parts[n])]))

\* the three values _write_calculator_sheet takes from the parsed tiers
fit_columns(ts) ==
    IF Len(ts) >= 2
    THEN [fit_tier1_rate |-> ts[1].rate, fit_tier1_vol |-> ts[1].volume,
          fit_tier2_rate |-> ts[2].rate]
    ELSE IF Len(ts) = 1
    THEN [fit_tier1_rate |-> ts[1].rate, fit_tier1_vol |-> 0, fit_tier2_rate |-> 0]
    ELSE [fit_tier1_rate |-> 0, fit_tier1_vol |-> 0, fit_tier2_rate |-> 0]

Least(a, b) == IF a <= b THEN a ELSE b

Greatest(a, b) == IF a >= b THEN a ELSE b

\* column Q: the formula written for the row, evaluated for export b5 (tenths)
solar_credit(cols, b5) ==
    IF cols.fit_tier1_vol > 0
    THEN Least(b5, cols.fit_tier1_vol) * cols.fit_tier1_rate
           + Greatest(b5 - cols.fit_tier1_vol, 0) * cols.fit_tier2_rate
    ELSE b5 * cols.fit_tier1_rate

NoRow == [min |-> 0, max |-> 0, details |-> <<>>]

SolarIdle ==
    /\ solarFit = <<>>
    /\ row = NoRow
    /\ tiers = <<>>
    /\ sheet = fit_columns(<<>>)
    /\ export = 0
    /\ credit = 0

\* ------------------------------------------------------------------------
\* Rates and charges of a plan's row, and the cost columns of the
\* calculator sheet.  Ex-GST and inc-GST amounts are counted in hundredths
\* of a cent; an optional value is <<>> (None) or <<v>>.
\* ------------------------------------------------------------------------
Null == <<>>

Some(v) == <<v>>

NoAnswer == [kind |-> "none", n |-> 0]

NoContract == [pricingModel |-> "absent", tariffPeriod |-> <<>>, controlledLoad |-> <<>>]

NoCharges ==
    [pricing_model |-> "", supply |-> Null, usage_min |-> Null, usage_max |-> Null,
     peak |-> Null, offpeak |-> Null, cl_rate |-> 0, cl_supply |-> 0]

NoCells ==
    [is_tou |-> FALSE, E |-> 0, F |-> Null, G |-> Null, H |-> Null, L |-> 0, M |-> 0]

NoInputs == [B4 |-> 0, B6 |-> "", B7 |-> "", B8 |-> 0]

NoCosts == [N |-> 0, O |-> 0, P |-> 0, R |-> 0, S |-> 0]

CalcIdle ==
    /\ meta = <<>>
    /\ contract = NoContract
    /\ charges = NoCharges
    /\ cells = NoCells
    /\ inputs = NoInputs
    /\ costs = NoCosts

\* ---- the contract of one plan: bounded inputs ----
MaxRates == 2     \* blockRate items over all periods and blocks of one contract
MaxBlocks == 2    \* touBlock entries of one tariff period

\* unitPrice values, ex-GST
UsagePrices == {2000, 2500, 3500, 95}

\* dailySupplyCharge of a tariff period: missing, or an ex-GST amount
SupplyCharges == {Null, Some(9000), Some(10015)}

\* block 0 is the period's own blockRate list, block b >= 1 is touBlock[b]
BlockRates == [unitPrice : UsagePrices, period : 1..MaxPeriods, block : 0..MaxBlocks]

block_rates(flat, p, b) ==
    LET own == SelectSeq(flat, LAMBDA br : br.period = p /\ br.block = b) IN
      [k \in DOMAIN own |-> [unitPrice |-> own[k].unitPrice]]

tariff_periods(heads, flat) ==
    [p \in DOMAIN heads |->
        [dailySupplyCharge |-> heads[p],
         blockRate |-> block_rates(flat, p, 0),
         touBlock |-> [b \in 1..MaxBlocks |-> [blockRate |-> block_rates(flat, p, b)]]]]

LoadEntry(rates, charge) ==
    [singleRate |-> [rates |-> rates, dailySupplyCharge |-> charge]]

ControlledLoads ==
    {<<>>,
     <<LoadEntry(<<>>, 0)>>,
     <<LoadEntry(<<[unitPrice |-> 1845], [unitPrice |-> 15]>>, 9000)>>,
     <<LoadEntry(<<[unitPrice |-> 15]>>, 2515), LoadEntry(<<[unitPrice |-> 1845]>>, 9000)>>}

\* solarFit lists for the rows whose charges are under study
SolarSamples ==
    {<<>>,
     <<[type |-> "R", rate |-> None,
        singleTariffRates |-> <<[unitPrice |-> Num("float", 30), volume |-> Num("int", 8)],
                                [unitPrice |-> Num("int", 10), volume |-> Num("int", 0)]>>]>>}

\* ---- extraction helpers ----
\* the ex-GST amounts x.xx5 whose product with 1.1 falls, as a binary float,
\* below the tie: round() takes them down, every other tie goes up
RoundsDown == {95, 2515}

round_gst_none(v) == v

\* round(v * GST_MULTIPLIER, 2), v and the result in hundredths
round_gst(v) ==
    LET q == (11 * v) \div 10
        r == (11 * v) % 10
    IN IF r < 5 THEN q
       ELSE IF r > 5 THEN q + 1
       ELSE IF v \in RoundsDown THEN q ELSE q + 1

extract_supply_charge(c) ==
    IF c.tariffPeriod # <<>> /\ c.tariffPeriod[1].dailySupplyCharge # Null
    THEN Some(round_gst(c.tariffPeriod[1].dailySupplyCharge[1]))
    ELSE Null

gst_rates(brs) == [k \in DOMAIN brs |-> round_gst(brs[k].unitPrice)]

_collect_usage_rates_every_period(c) ==
    LET pricing_model == IF c.pricingModel = "absent" THEN "SR" ELSE c.pricingModel IN
      Flatten([p \in DOMAIN c.tariffPeriod |->
          IF pricing_model = "TOU"
          THEN Flatten([b \in DOMAIN c.tariffPeriod[p].touBlock |->
                           gst_rates(c.tariffPeriod[p].touBlock[b].blockRate)])
          ELSE gst_rates(c.tariffPeriod[p].blockRate)])

_collect_usage_rates(c) ==
    IF c.tariffPeriod = <<>> THEN <<>>
    ELSE LET tp == c.tariffPeriod[1]
             pricing_model == IF c.pricingModel = "absent" THEN "SR" ELSE c.pricingModel
         IN IF pricing_model = "TOU"
            THEN Flatten([b \in DOMAIN tp.touBlock |-> gst_rates(tp.touBlock[b].blockRate)])
            ELSE gst_rates(tp.blockRate)

lowest(rates) == CHOOSE x \in Range(rates) : \A y \in Range(rates) : x <= y

highest(rates) == CHOOSE x \in Range(rates) : \A y \in Range(rates) : x >= y

extract_usage_rate_min(c) ==
    LET rates == _collect_usage_rates(c) IN
      IF rates # <<>> THEN Some(lowest(rates)) ELSE Null

extract_usage_rate_max(c) ==
    LET rates == _collect_usage_rates(c) IN
      IF rates # <<>> THEN Some(highest(rates)) ELSE Null

extract_tou_peak_rate_ungated(c) ==
    LET rates == _collect_usage_rates(c) IN
      IF rates # <<>> THEN Some(highest(rates)) ELSE Null

extract_tou_peak_rate(c) ==
    IF c.pricingModel # "TOU" THEN Null
    ELSE LET rates == _collect_usage_rates(c) IN
           IF rates # <<>> THEN Some(highest(rates)) ELSE Null

extract_tou_offpeak_rate(c) ==
    IF c.pricingModel # "TOU" THEN Null
    ELSE LET rates == _collect_usage_rates(c) IN
           IF rates # <<>> THEN Some(lowest(rates)) ELSE Null

extract_controlled_load_rate(c) ==
    IF c.controlledLoad = <<>> THEN 0
    ELSE LET rates_list == c.controlledLoad[1].singleRate.rates IN
           IF rates_list # <<>> THEN round_gst(rates_list[1].unitPrice) ELSE 0

extract_controlled_load_supply(c) ==
    IF c.controlledLoad = <<>> THEN 0
    ELSE LET daily_charge == c.controlledLoad[1].singleRate.dailySupplyCharge IN
           IF daily_charge # 0 THEN round_gst(daily_charge) ELSE 0

\* the charge fields of the row process_plan builds
plan_charges(c) ==
    [pricing_model |-> IF c.pricingModel = "absent" THEN "" ELSE c.pricingModel,
     supply |-> extract_supply_charge(c),
     usage_min |-> extract_usage_rate_min(c),
     usage_max |-> extract_usage_rate_max(c),
     peak |-> extract_tou_peak_rate(c),
     offpeak |-> extract_tou_offpeak_rate(c),
     cl_rate |-> extract_controlled_load_rate(c),
     cl_supply |-> extract_controlled_load_supply(c)]

\* ---- the calculator sheet ----
\* peak_pct and offpeak_pct in percent
USAGE_PROFILES ==
    <<[name |-> "Flat Usage", peak_pct |-> 50, offpeak_pct |-> 50],
      [name |-> "Slight Peak", peak_pct |-> 60, offpeak_pct |-> 40],
      [name |-> "Heavy Peak", peak_pct |-> 75, offpeak_pct |-> 25],
      [name |-> "Off-Peak Heavy", peak_pct |-> 30, offpeak_pct |-> 70],
      [name |-> "Battery Optimised", peak_pct |-> 10, offpeak_pct |-> 90]>>

PROFILE_NAMES == [n \in DOMAIN USAGE_PROFILES |-> USAGE_PROFILES[n].name]

\* x or 0
or0(x) == IF x = Null THEN 0 ELSE x[1]

\* the nested IF($B$6="name", pct, ...) written to column N, on B6 = b6
RECURSIVE peak_formula_from(_, _)
peak_formula_from(n, b6) ==
    IF n > Len(USAGE_PROFILES) THEN 50
    ELSE IF b6 = USAGE_PROFILES[n].name THEN USAGE_PROFILES[n].peak_pct
    ELSE peak_formula_from(n + 1, b6)

peak_formula_inner(b6) == peak_formula_from(1, b6)

RECURSIVE offpeak_formula_from(_, _)
offpeak_formula_from(n, b6) ==
    IF n > Len(USAGE_PROFILES) THEN 50
    ELSE IF b6 = USAGE_PROFILES[n].name THEN USAGE_PROFILES[n].offpeak_pct
    ELSE offpeak_formula_from(n + 1, b6)

offpeak_formula_inner(b6) == offpeak_formula_from(1, b6)

\* the static cells of one plan's row: E, F, G, H, L, M (a cell written as ""
\* is <<>>)
row_cells(ch) ==
    LET is_tou == ch.pricing_model = "TOU" IN
      [is_tou |-> is_tou,
       E |-> or0(ch.supply),
       F |-> IF ~is_tou THEN Some(or0(ch.usage_max)) ELSE Null,
       G |-> IF is_tou THEN Some(or0(ch.peak)) ELSE Null,
       H |-> IF is_tou THEN Some(or0(ch.offpeak)) ELSE Null,
       L |-> ch.cl_rate,
       M |-> ch.cl_supply]

\* values typed into B4 (kWh), B6, B7 and B8 (kWh)
Usages == {20, 15}

LoadUsages == {8, 3}

\* columns N and O: percent
peak_share(cs, inp) == IF cs.is_tou THEN peak_formula_inner(inp.B6) ELSE 100

offpeak_share(cs, inp) == IF cs.is_tou THEN offpeak_formula_inner(inp.B6) ELSE 0

usage_cost_at_peak(cs, inp) ==
    IF cs.is_tou THEN inp.B4 * 100 * cs.G[1] ELSE inp.B4 * cs.F[1] * 100

\* column P, in 1e-4 cent: =$B$4*(N*G+O*H) for a TOU row, =$B$4*F otherwise
usage_cost(cs, inp) ==
    IF cs.is_tou
    THEN inp.B4 * (peak_share(cs, inp) * cs.G[1] + offpeak_share(cs, inp) * cs.H[1])
    ELSE inp.B4 * cs.F[1] * 100

cl_cost_ungated(cs, inp) == (inp.B8 * cs.L + cs.M) * 100

\* column R, in 1e-4 cent: =IF($B$7="Yes",$B$8*L+M,0)
cl_cost(cs, inp) ==
    IF inp.B7 = "Yes" THEN (inp.B8 * cs.L + cs.M) * 100 ELSE 0

\* column S, in 1e-4 cent: =E+P-Q+R, Q being the solar credit in hundredths
\* (column T, =S*30.44/100, is a function of S alone and is left out)
net_cost(e, p, q, r) == e * 100 + p - q * 100 + r

sheet_costs(cs, inp, q) ==
    [N |-> peak_share(cs, inp),
     O |-> offpeak_share(cs, inp),
     P |-> usage_cost(cs, inp),
     R |-> cl_cost(cs, inp),
     S |-> net_cost(cs.E, usage_cost(cs, inp), q, cl_cost(cs, inp))]

\* ------------------------------------------------------------------------
\* filter_plans
\* ------------------------------------------------------------------------
FilterStep ==
    /\ UNCHANGED requested
    /\ UNCHANGED <<warnings, solar, calc, answer>>
    /\ pc = "filter"
    /\ i <= Len(plans)
    /\ LET st == filter_body([filtered |-> filtered, stats |-> stats, raised |-> FALSE],
                             plans[i], include_controlled_load, include_demand)
       IN IF st.raised
          THEN /\ pc' = "crashed"
               /\ failure' = "uncaught:filter_plans"
               /\ UNCHANGED <<i, filtered, stats>>
          ELSE /\ filtered' = st.filtered
               /\ stats' = st.stats
               /\ i' = i + 1
               /\ UNCHANGED <<pc, failure>>
    /\ UNCHANGED <<cmdline, include_controlled_load, include_demand, resolver,
                   fetcher, plans, processor>>

FilterReturn ==
    /\ UNCHANGED requested
    /\ UNCHANGED <<warnings, solar, calc, answer>>
    /\ pc = "filter"
    /\ i > Len(plans)
    /\ stats' = [stats EXCEPT !.kept = Len(filtered)]
    /\ filtered_plans' = filtered
    /\ pc' = "process"
    /\ i' = 1
    /\ UNCHANGED <<failure, cmdline, include_controlled_load, include_demand,
                   resolver, fetcher, plans, filtered, all_plans_data, errors>>

InitFilter ==
    /\ pc = "filter"
    /\ failure = "none"
    /\ postcode = "ok" /\ mode = "interactive" /\ argDist = 0
    /\ no_filter = FALSE
    /\ include_controlled_load \in BOOLEAN
    /\ include_demand \in BOOLEAN
    /\ distributors = <<>> /\ discovered = FALSE
    /\ i = 1
    /\ probed = <<>> /\ available = <<>> /\ prompted = FALSE
    /\ selected = <<>>
    /\ fetched = <<>> /\ distributor_names = <<>> /\ all_raw_plans = <<>>
    /\ plans \in SeqsUpTo(BatchPlans, MaxBatch)
    /\ filtered = <<>>
    /\ stats = NewStats(Len(plans))
    /\ filtered_plans = <<>> /\ all_plans_data = <<>> /\ errors = 0
    /\ requested = {} /\ warnings = <<>>
    /\ SolarIdle
    /\ CalcIdle
    /\ answer = NoAnswer

NextFilter == FilterStep \/ FilterReturn

SpecFilter == InitFilter /\ [][NextFilter]_vars

Returned == pc = "process"

\* C1: whenever filter_plans returns, kept + demand_filtered +
\* controlled_load_filtered = total, total is the length of the input batch
\* and kept the length of the returned list.
C1_FilterCompleteness ==
    Returned =>
        /\ stats.kept + stats.demand_filtered + stats.controlled_load_filtered
             = stats.total
        /\ stats.total = Len(plans)
        /\ stats.kept = Len(filtered_plans)

C1_Witness ==
    /\ Returned
    /\ stats.kept > 0
    /\ stats.demand_filtered > 0
    /\ stats.controlled_load_filtered > 0

BothGates(p) ==
    /\ ~ContractLookupRaises(p)
    /\ \E t \in DOMAIN p.tariffPeriod : p.tariffPeriod[t] # 0
    /\ p.controlledLoad # 0

\* C2: no iteration of the filter loop raises more than one of the two
\* counters or both counts and keeps a plan; with both switches off a plan
\* with a demand charge and a controlled load raises demand_filtered only
\* and is not kept.
C2_NoDoubleCount ==
    [][pc = "filter" /\ pc' = "filter" =>
        LET d == stats'.demand_filtered - stats.demand_filtered
            c == stats'.controlled_load_filtered - stats.controlled_load_filtered
            k == Len(filtered') - Len(filtered)
        IN /\ d >= 0 /\ c >= 0 /\ k >= 0
           /\ d + c + k = 1
           /\ (~include_demand /\ ~include_controlled_load /\ BothGates(plans[i]))
                => (d = 1 /\ c = 0 /\ k = 0)]_vars

C2_Witness ==
    /\ pc = "filter"
    /\ ~include_demand /\ ~include_controlled_load
    /\ i > 1
    /\ BothGates(plans[i - 1])
    /\ stats.demand_filtered = 1
    /\ stats.controlled_load_filtered = 0

PassesGates(p) ==
    /\ include_demand \/ \A t \in DOMAIN p.tariffPeriod : p.tariffPeriod[t] = 0
    /\ include_controlled_load \/ p.controlledLoad = 0

\* C3: the list filter_plans returns is the order-preserving subsequence of
\* the plans that pass the demand gate (include_demand, or no tariff period
\* with a demand charge) and the controlled-load gate (include_controlled_load,
\* or no controlled load); the number counted under the demand gate does not
\* depend on include_controlled_load.
C3_KeptIffPassesGates ==
    Returned =>
        /\ filtered_plans = SelectSeq(plans, PassesGates)
        /\ stats.demand_filtered =
             Cardinality({n \in DOMAIN plans :
                 ~include_demand /\ \E t \in DOMAIN plans[n].tariffPeriod :
                                        plans[n].tariffPeriod[t] # 0})

C3_Witness ==
    /\ Returned
    /\ Len(plans) = 3
    /\ ~include_demand /\ include_controlled_load
    /\ plans[1].controlledLoad = 1 /\ plans[1].tariffPeriod = <<0, 0>>
    /\ plans[2].tariffPeriod = <<0, 1>>
    /\ plans[3].tariffPeriod = <<>> /\ plans[3].controlledLoad = 0
    /\ filtered_plans = <<plans[1], plans[3]>>

\* ------------------------------------------------------------------------
\* fetch_distributors: the meta response is a list of items, each with a
\* list of supplyArea references (ids); names sort in reverse id order.
\* ------------------------------------------------------------------------
MetaResponses == SeqsUpTo(SeqsUpTo(DistIds, MaxAreas), MaxItems)

NameKey(d) == 0 - d.id

RECURSIVE SupplyAreas(_)
SupplyAreas(data) ==
    IF data = <<>> THEN <<>> ELSE Head(data) \o SupplyAreas(Tail(data))

RECURSIVE Collect(_, _)
Collect(areas, seen) ==
    IF areas = <<>> THEN <<>>
    ELSE IF Head(areas) \in seen THEN Collect(Tail(areas), seen)
    ELSE <<[id |-> Head(areas), name |-> MetaName(Head(areas)), plan_count |-> <<>>]>>
           \o Collect(Tail(areas), seen \cup {Head(areas)})

RECURSIVE InsertByName(_, _)
InsertByName(d, s) ==
    IF s = <<>> THEN <<d>>
    ELSE IF NameKey(d) < NameKey(Head(s)) THEN <<d>> \o s
    ELSE <<Head(s)>> \o InsertByName(d, Tail(s))

RECURSIVE sorted(_)
sorted(s) ==
    IF s = <<>> THEN <<>>
    ELSE InsertByName(s[Len(s)], sorted(SubSeq(s, 1, Len(s) - 1)))

RECURSIVE Every(_)
Every(areas) ==
    IF areas = <<>> THEN <<>>
    ELSE <<[id |-> Head(areas), name |-> MetaName(Head(areas)), plan_count |-> <<>>]>>
           \o Every(Tail(areas))

fetch_distributors_no_dedupe(data) == sorted(Every(SupplyAreas(data)))

fetch_distributors(data) == sorted(Collect(SupplyAreas(data), {}))

\* main, --dist <id>: the one selected entry; the name is looked up in the
\* discovered list and falls back to "ID <id>"
select_by_id_checked(ds, dist_id) ==
    IF \E n \in DOMAIN ds : ds[n].id = dist_id
    THEN <<[id |-> dist_id, name |-> MetaName(dist_id), plan_count |-> <<0>>]>>
    ELSE <<>>

select_by_id(ds, dist_id) ==
    LET dist_name == IF \E n \in DOMAIN ds : ds[n].id = dist_id
                     THEN MetaName(dist_id) ELSE IdName(dist_id)
    IN <<[id |-> dist_id, name |-> dist_name, plan_count |-> <<0>>]>>

\* ------------------------------------------------------------------------
\* probe_distributor_plans: resp is what requests.get / resp.json() give:
\* an exception, or a status code and the number of plans in the body.
\* The result is [raised, value].
\* ------------------------------------------------------------------------
ProbeResponses ==
    {[exc |-> TRUE, status |-> 0, plans |-> 0]}
      \cup {[exc |-> FALSE, status |-> st, plans |-> n] :
                st \in {200, 500}, n \in 0..MaxCount}

probe_distributor_plans_propagates(resp) ==
    IF resp.exc THEN [raised |-> TRUE, value |-> 0]
    ELSE IF resp.status # 200 THEN [raised |-> FALSE, value |-> 0 - 1]
    ELSE [raised |-> FALSE, value |-> resp.plans]

probe_distributor_plans(resp) ==
    IF resp.exc THEN [raised |-> FALSE, value |-> 0 - 1]
    ELSE IF resp.status # 200 THEN [raised |-> FALSE, value |-> 0 - 1]
    ELSE [raised |-> FALSE, value |-> resp.plans]

\* "if count > 0" of both probing loops
HasPlans_nonnegative(count) == count >= 0

HasPlans_truthy(count) == count # 0

HasPlans(count) == count > 0

\* "if not selected" of main
NoneSelected_unchecked(sel) == FALSE

NoneSelected(sel) == sel = <<>>

\* "if len(distributors) == 1" of select_distributor_interactive
SingleDistributor_never(ds) == FALSE

SingleDistributor(ds) == Len(ds) = 1

\* the body of the "while True" loop of select_distributor_interactive:
\* [valid, sel] for one line of input
Choices ==
    {[kind |-> "A", n |-> 0], [kind |-> "text", n |-> 0]}
      \cup {[kind |-> "int", n |-> n] : n \in (0 - 1)..(MaxDist + 1)}

choose_inclusive(choice, avail) ==
    IF choice.kind = "A" THEN [valid |-> TRUE, sel |-> avail]
    ELSE IF choice.kind = "int" /\ 0 <= choice.n - 1 /\ choice.n - 1 <= Len(avail)
    THEN [valid |-> TRUE,
          sel |-> IF choice.n <= Len(avail) THEN <<avail[choice.n]>> ELSE <<>>]
    ELSE [valid |-> FALSE, sel |-> <<>>]

choose_lenient(choice, avail) ==
    IF choice.kind = "A" THEN [valid |-> TRUE, sel |-> avail]
    ELSE IF choice.kind = "int" /\ 0 <= choice.n - 1 /\ choice.n - 1 < Len(avail)
    THEN [valid |-> TRUE, sel |-> <<avail[choice.n]>>]
    ELSE IF choice.kind = "int"
    THEN [valid |-> TRUE, sel |-> <<avail[1]>>]
    ELSE [valid |-> FALSE, sel |-> <<>>]

choose(choice, avail) ==
    IF choice.kind = "A" THEN [valid |-> TRUE, sel |-> avail]
    ELSE IF choice.kind = "int" /\ 0 <= choice.n - 1 /\ choice.n - 1 < Len(avail)
    THEN [valid |-> TRUE, sel |-> <<avail[choice.n]>>]
    ELSE [valid |-> FALSE, sel |-> <<>>]

\* the exception the first lines of process_plan raise on a plan
LookupError(plan) ==
    CASE plan.shape = "noPlanData" -> "KeyError"
      [] plan.shape = "nullPlanData" -> "TypeError"
      [] plan.shape = "noContract" -> "KeyError"
      [] plan.shape = "emptyContract" -> "IndexError"
      [] plan.shape = "noFuelType" -> "KeyError"
      [] OTHER -> "none"

\* process_plan: [raised, exc, row]; the row's extracted fields are functions
\* of the plan, kept as the plan itself
process_plan_lenient(plan, distributor_name) ==
    IF plan.shape \in {"nullPlanData", "emptyContract"}
    THEN [raised |-> TRUE, exc |-> LookupError(plan),
          row |-> [Distributor |-> NA, plan |-> plan]]
    ELSE [raised |-> FALSE, exc |-> "none",
          row |-> [Distributor |-> distributor_name, plan |-> plan]]

process_plan(plan, distributor_name) ==
    IF ContractLookupRaises(plan) \/ plan.shape = "noFuelType"
    THEN [raised |-> TRUE, exc |-> LookupError(plan),
          row |-> [Distributor |-> NA, plan |-> plan]]
    ELSE [raised |-> FALSE, exc |-> "none",
          row |-> [Distributor |-> distributor_name, plan |-> plan]]

append_front(rows, r) == <<r>> \o rows

append(rows, r) == Append(rows, r)

\* plan.get("planData", {}).get("planName", "Unknown") of the except clause
\* of Step 4; has_name says whether planData carries a planName
handler_plan_name(plan, has_name) ==
    IF plan.shape = "nullPlanData"
    THEN [raised |-> TRUE, name |-> "Unknown"]
    ELSE IF plan.shape = "noPlanData" \/ ~has_name
    THEN [raised |-> FALSE, name |-> "Unknown"]
    ELSE [raised |-> FALSE, name |-> "planName"]

\* "if not postcode or not postcode.isdigit() or len(postcode) != 4"
postcode_rejected_any_length(p) == p \in {"empty", "nondigit"}

postcode_rejected(p) == p \in {"empty", "nondigit", "wronglen"}

\* all_raw_plans.extend(raw_plans)
extend_front(all, raw) == raw \o all

extend(all, raw) == all \o raw

\* "continue" of the except clause of the fetch loop: the next position
after_fetch_error_break(n, sel) == Len(sel) + 1

after_fetch_error(n, sel) == n + 1

\* include_demand argument of the filter_plans call of main
main_include_demand_on == TRUE

main_include_demand == FALSE

\* ------------------------------------------------------------------------
\* main
\* ------------------------------------------------------------------------
Init ==
    /\ pc = "parse"
    /\ failure = "none"
    /\ postcode \in {"ok", "empty", "nondigit", "wronglen"}
    /\ mode \in {"interactive", "id", "all"}
    /\ argDist \in IF mode = "id" THEN DistIds ELSE {0}
    /\ no_filter \in BOOLEAN
    /\ include_controlled_load \in BOOLEAN
    /\ include_demand = FALSE
    /\ distributors = <<>> /\ discovered = FALSE
    /\ i = 1
    /\ probed = <<>> /\ available = <<>> /\ prompted = FALSE
    /\ selected = <<>>
    /\ fetched = <<>> /\ distributor_names = <<>> /\ all_raw_plans = <<>>
    /\ plans = <<>> /\ filtered = <<>> /\ stats = NewStats(0)
    /\ filtered_plans = <<>> /\ all_plans_data = <<>> /\ errors = 0
    /\ requested = {} /\ warnings = <<>>
    /\ SolarIdle
    /\ CalcIdle
    /\ answer = NoAnswer

Exit(msg) ==
    /\ pc' = "exit1"
    /\ failure' = msg

CheckPostcode ==
    /\ UNCHANGED requested
    /\ UNCHANGED <<warnings, solar, calc, answer>>
    /\ pc = "parse"
    /\ IF postcode_rejected(postcode)
       THEN Exit("invalid_postcode")
       ELSE pc' = "validate" /\ UNCHANGED failure
    /\ UNCHANGED <<cmdline, include_controlled_load, resolver, i, fetcher,
                   filterer, processor>>

ValidatePostcode ==
    /\ requested' = requested \cup {"postcode"}
    /\ UNCHANGED <<warnings, solar, calc, answer>>
    /\ pc = "validate"
    /\ \E resp \in {"error", "empty", "found"} :
         IF resp = "error" THEN Exit("validate_error")
         ELSE IF resp = "empty" THEN Exit("no_locations")
         ELSE pc' = "resolve" /\ UNCHANGED failure
    /\ UNCHANGED <<cmdline, include_controlled_load, resolver, i, fetcher,
                   filterer, processor>>

\* resp.raise_for_status() of fetch_distributors; no caller catches it
DiscoverRaises ==
    /\ requested' = requested \cup {"meta"}
    /\ UNCHANGED <<warnings, solar, calc, answer>>
    /\ pc = "resolve"
    /\ pc' = "crashed"
    /\ failure' = "uncaught:fetch_distributors"
    /\ UNCHANGED <<cmdline, include_controlled_load, resolver, i, fetcher,
                   filterer, processor>>

DiscoverInteractive ==
    /\ requested' = requested \cup {"meta"}
    /\ UNCHANGED <<warnings, solar, calc, answer>>
    /\ pc = "resolve" /\ mode = "interactive"
    /\ \E data \in MetaResponses :
         LET ds == fetch_distributors(data) IN
         /\ distributors' = ds
         /\ discovered' = TRUE
         /\ IF ds = <<>>
            THEN /\ failure' = "no_coverage"
                 /\ selected' = <<>>
                 /\ pc' = "check_selected"
            ELSE IF SingleDistributor(ds)
            THEN /\ selected' = ds
                 /\ pc' = "check_selected"
                 /\ UNCHANGED failure
            ELSE /\ pc' = "probe"
                 /\ UNCHANGED <<selected, failure>>
    /\ i' = 1
    /\ UNCHANGED <<cmdline, include_controlled_load, probed, available,
                   prompted, fetcher, filterer, processor>>

ProbeInteractive ==
    /\ requested' = requested \cup {"probe"}
    /\ UNCHANGED <<warnings, solar, calc, answer>>
    /\ pc = "probe" /\ mode = "interactive"
    /\ i <= Len(distributors)
    /\ \E resp \in ProbeResponses :
         LET r == probe_distributor_plans(resp)
             d == [distributors[i] EXCEPT !.plan_count = <<r.value>>]
         IN IF r.raised
            THEN /\ pc' = "crashed"
                 /\ failure' = "uncaught:probe_distributor_plans"
                 /\ UNCHANGED <<i, distributors, available>>
                 /\ probed' = Append(probed, [id |-> distributors[i].id, resp |-> resp,
                                              count |-> 0 - 1])
            ELSE /\ probed' = Append(probed, [id |-> distributors[i].id, resp |-> resp,
                                              count |-> r.value])
                 /\ IF HasPlans(r.value)
                    THEN /\ distributors' = [distributors EXCEPT ![i] = d]
                         /\ available' = Append(available, d)
                    ELSE UNCHANGED <<distributors, available>>
                 /\ i' = i + 1
                 /\ UNCHANGED <<pc, failure>>
    /\ UNCHANGED <<cmdline, include_controlled_load, discovered, prompted,
                   selected, fetcher, filterer, processor>>

ProbeInteractiveDone ==
    /\ UNCHANGED requested
    /\ UNCHANGED <<warnings, solar, calc, answer>>
    /\ pc = "probe" /\ mode = "interactive"
    /\ i > Len(distributors)
    /\ IF available = <<>>
       THEN /\ failure' = "no_plans_any"
            /\ selected' = <<>>
            /\ pc' = "check_selected"
       ELSE IF Len(available) = 1
       THEN /\ selected' = available
            /\ pc' = "check_selected"
            /\ UNCHANGED failure
       ELSE /\ pc' = "prompt"
            /\ UNCHANGED <<selected, failure>>
    /\ UNCHANGED <<cmdline, include_controlled_load, distributors, discovered,
                   i, probed, available, prompted, fetcher, filterer, processor>>

Prompt ==
    /\ UNCHANGED requested
    /\ UNCHANGED <<warnings, solar, calc>>
    /\ pc = "prompt"
    /\ \E choice \in Choices :
         LET r == choose(choice, available) IN
         /\ prompted' = TRUE
         /\ answer' = choice
         /\ IF r.valid
            THEN selected' = r.sel /\ pc' = "check_selected"
            ELSE UNCHANGED <<selected, pc>>
    /\ UNCHANGED <<failure, cmdline, include_controlled_load, distributors,
                   discovered, i, probed, available, fetcher, filterer, processor>>

DiscoverAll ==
    /\ requested' = requested \cup {"meta"}
    /\ UNCHANGED <<warnings, solar, calc, answer>>
    /\ pc = "resolve" /\ mode = "all"
    /\ \E data \in MetaResponses :
         distributors' = fetch_distributors(data)
    /\ discovered' = TRUE
    /\ selected' = <<>>
    /\ pc' = "probe"
    /\ i' = 1
    /\ UNCHANGED <<failure, cmdline, include_controlled_load, probed, available,
                   prompted, fetcher, filterer, processor>>

ProbeAll ==
    /\ requested' = requested \cup {"probe"}
    /\ UNCHANGED <<warnings, solar, calc, answer>>
    /\ pc = "probe" /\ mode = "all"
    /\ i <= Len(distributors)
    /\ \E resp \in ProbeResponses :
         LET r == probe_distributor_plans(resp)
             d == [distributors[i] EXCEPT !.plan_count = <<r.value>>]
         IN IF r.raised
            THEN /\ pc' = "crashed"
                 /\ failure' = "uncaught:probe_distributor_plans"
                 /\ UNCHANGED <<i, distributors, selected>>
                 /\ probed' = Append(probed, [id |-> distributors[i].id, resp |-> resp,
                                              count |-> 0 - 1])
            ELSE /\ probed' = Append(probed, [id |-> distributors[i].id, resp |-> resp,
                                              count |-> r.value])
                 /\ IF HasPlans(r.value)
                    THEN /\ distributors' = [distributors EXCEPT ![i] = d]
                         /\ selected' = Append(selected, d)
                    ELSE UNCHANGED <<distributors, selected>>
                 /\ i' = i + 1
                 /\ UNCHANGED <<pc, failure>>
    /\ UNCHANGED <<cmdline, include_controlled_load, discovered, available,
                   prompted, fetcher, filterer, processor>>

ProbeAllDone ==
    /\ UNCHANGED requested
    /\ UNCHANGED <<warnings, solar, calc, answer>>
    /\ pc = "probe" /\ mode = "all"
    /\ i > Len(distributors)
    /\ selected' = IF selected = <<>>
                   THEN <<[id |-> 0, name |-> Auto, plan_count |-> <<0>>]>>
                   ELSE selected
    /\ pc' = "check_selected"
    /\ UNCHANGED <<failure, cmdline, include_controlled_load, distributors,
                   discovered, i, probed, available, prompted, fetcher,
                   filterer, processor>>

DiscoverId ==
    /\ requested' = requested \cup {"meta"}
    /\ UNCHANGED <<warnings, solar, calc, answer>>
    /\ pc = "resolve" /\ mode = "id"
    /\ \E data \in MetaResponses :
         LET ds == fetch_distributors(data)
         IN /\ distributors' = ds
            /\ selected' = select_by_id(ds, argDist)
    /\ discovered' = TRUE
    /\ pc' = "check_selected"
    /\ UNCHANGED <<failure, cmdline, include_controlled_load, i, probed,
                   available, prompted, fetcher, filterer, processor>>

CheckSelected ==
    /\ UNCHANGED requested
    /\ UNCHANGED <<warnings, solar, calc, answer>>
    /\ pc = "check_selected"
    /\ pc' = IF NoneSelected(selected) THEN "exit1" ELSE "fetch"
    /\ i' = 1
    /\ UNCHANGED <<failure, cmdline, include_controlled_load, resolver, fetcher,
                   filterer, processor>>

RECURSIVE Tag(_, _)
Tag(raw_plans, dist_name) ==
    IF raw_plans = <<>> THEN <<>>
    ELSE <<[Head(raw_plans) EXCEPT !.dist = dist_name]>> \o Tag(Tail(raw_plans), dist_name)

FetchStep ==
    /\ requested' = requested \cup {"plans"}
    /\ UNCHANGED <<warnings, solar, calc, answer>>
    /\ pc = "fetch"
    /\ i <= Len(selected)
    /\ distributor_names' = Append(distributor_names, selected[i].name)
    /\ \/ /\ fetched' = Append(fetched, [id |-> selected[i].id, ok |-> FALSE,
                                         result |-> <<>>])
          /\ i' = after_fetch_error(i, selected)
          /\ UNCHANGED all_raw_plans
       \/ \E raw_plans \in SeqsUpTo(FetchablePlans, MaxFetch) :
            /\ fetched' = Append(fetched, [id |-> selected[i].id, ok |-> TRUE,
                                           result |-> Tag(raw_plans, selected[i].name)])
            /\ all_raw_plans' = extend(all_raw_plans, Tag(raw_plans, selected[i].name))
            /\ i' = i + 1
    /\ UNCHANGED <<pc, failure, cmdline, include_controlled_load, resolver,
                   filterer, processor>>

FetchDone ==
    /\ UNCHANGED requested
    /\ UNCHANGED <<warnings, solar, calc, answer>>
    /\ pc = "fetch"
    /\ i > Len(selected)
    /\ IF no_filter
       THEN /\ filtered_plans' = all_raw_plans
            /\ pc' = "process"
       ELSE /\ pc' = "cl_prompt"
            /\ UNCHANGED filtered_plans
    /\ i' = 1
    /\ UNCHANGED <<failure, cmdline, include_controlled_load, resolver, fetcher,
                   filterer, all_plans_data, errors>>

CallFilter ==
    /\ UNCHANGED requested
    /\ UNCHANGED <<warnings, solar, calc, answer>>
    /\ pc = "cl_prompt"
    /\ \E isatty \in BOOLEAN, cl_answer \in {"Y", "N"} :
         include_controlled_load' =
             IF ~include_controlled_load /\ isatty /\ cl_answer = "Y"
             THEN TRUE ELSE include_controlled_load
    /\ include_demand' = main_include_demand
    /\ plans' = all_raw_plans
    /\ stats' = NewStats(Len(all_raw_plans))
    /\ filtered' = <<>>
    /\ i' = 1
    /\ pc' = "filter"
    /\ UNCHANGED <<failure, cmdline, resolver, fetcher, processor>>

ProcessStep ==
    /\ UNCHANGED requested
    /\ pc = "process"
    /\ i <= Len(filtered_plans)
    /\ LET r == process_plan(filtered_plans[i], filtered_plans[i].dist) IN
         IF ~r.raised
         THEN /\ all_plans_data' = append(all_plans_data, r.row)
              /\ i' = i + 1
              /\ UNCHANGED <<errors, warnings, pc, failure>>
         ELSE /\ errors' = errors + 1
              /\ UNCHANGED all_plans_data
              /\ \E has_name \in BOOLEAN :
                   LET h == handler_plan_name(filtered_plans[i], has_name) IN
                     IF h.raised
                     THEN /\ pc' = "crashed"
                          /\ failure' = "uncaught:main"
                          /\ UNCHANGED <<i, warnings>>
                     ELSE /\ warnings' = Append(warnings,
                                 [shape |-> filtered_plans[i].shape, exc |-> r.exc,
                                  plan_name |-> h.name])
                          /\ i' = i + 1
                          /\ UNCHANGED <<pc, failure>>
    /\ UNCHANGED <<cmdline, include_controlled_load, resolver,
                   fetcher, filterer, filtered_plans, solar, calc, answer>>

ProcessDone ==
    /\ UNCHANGED requested
    /\ UNCHANGED <<warnings, solar, calc, answer>>
    /\ pc = "process"
    /\ i > Len(filtered_plans)
    /\ IF all_plans_data = <<>>
       THEN Exit("no_plans")
       ELSE pc' = "export" /\ UNCHANGED failure
    /\ UNCHANGED <<cmdline, include_controlled_load, resolver, i, fetcher,
                   filterer, processor>>

Export ==
    /\ UNCHANGED requested
    /\ UNCHANGED <<warnings, solar, calc, answer>>
    /\ pc = "export"
    /\ \/ pc' = "done" /\ UNCHANGED failure
       \/ Exit("export_error")
    /\ UNCHANGED <<cmdline, include_controlled_load, resolver, i, fetcher,
                   filterer, processor>>

Next ==
    \/ CheckPostcode \/ ValidatePostcode
    \/ DiscoverRaises \/ DiscoverInteractive \/ DiscoverAll \/ DiscoverId
    \/ ProbeInteractive \/ ProbeInteractiveDone \/ Prompt
    \/ ProbeAll \/ ProbeAllDone
    \/ CheckSelected
    \/ FetchStep \/ FetchDone
    \/ CallFilter \/ FilterStep \/ FilterReturn
    \/ ProcessStep \/ ProcessDone
    \/ Export

Spec == Init /\ [][Next]_vars

\* the run of main when the line typed at the distributor prompt is
\* eventually a valid one
ValidInputArrives == Prompt /\ pc' # "prompt"

\* main up to the return of select_distributor_interactive
InitPrompt == Init /\ mode = "interactive"

NextPrompt ==
    \/ CheckPostcode \/ ValidatePostcode
    \/ DiscoverRaises \/ DiscoverInteractive
    \/ ProbeInteractive \/ ProbeInteractiveDone \/ Prompt

SpecPrompt == InitPrompt /\ [][NextPrompt]_vars /\ WF_vars(ValidInputArrives)

\* ------------------------------------------------------------------------
\* fetch_distributors on one meta response
\* ------------------------------------------------------------------------
MainIdle ==
    /\ failure = "none"
    /\ postcode = "ok" /\ mode = "interactive" /\ argDist = 0
    /\ no_filter = FALSE
    /\ include_controlled_load = FALSE
    /\ include_demand = FALSE
    /\ distributors = <<>> /\ discovered = FALSE
    /\ i = 1
    /\ probed = <<>> /\ available = <<>> /\ prompted = FALSE
    /\ selected = <<>>
    /\ fetched = <<>> /\ distributor_names = <<>> /\ all_raw_plans = <<>>
    /\ plans = <<>> /\ filtered = <<>> /\ stats = NewStats(0)
    /\ filtered_plans = <<>> /\ all_plans_data = <<>> /\ errors = 0
    /\ requested = {} /\ warnings = <<>>
    /\ answer = NoAnswer

InitDiscover ==
    /\ pc = "discover"
    /\ MainIdle
    /\ SolarIdle
    /\ meta \in MetaResponses
    /\ contract = NoContract
    /\ charges = NoCharges
    /\ cells = NoCells
    /\ inputs = NoInputs
    /\ costs = NoCosts

FetchDistributors ==
    /\ pc = "discover"
    /\ distributors' = fetch_distributors(meta)
    /\ discovered' = TRUE
    /\ requested' = requested \cup {"meta"}
    /\ pc' = "discovered"
    /\ UNCHANGED <<failure, cmdline, include_controlled_load, i, probed, available,
                   prompted, selected, fetcher, filterer, processor, warnings,
                   answer, solar, calc>>

SpecDiscover == InitDiscover /\ [][FetchDistributors]_vars

\* ------------------------------------------------------------------------
\* The solar fields of one plan, from the API entry to the sheet's credit
\* ------------------------------------------------------------------------
InitSolar ==
    /\ pc = "solar_row"
    /\ failure = "none"
    /\ postcode = "ok" /\ mode = "interactive" /\ argDist = 0
    /\ no_filter = FALSE
    /\ include_controlled_load = FALSE
    /\ include_demand = FALSE
    /\ distributors = <<>> /\ discovered = FALSE
    /\ i = 1
    /\ probed = <<>> /\ available = <<>> /\ prompted = FALSE
    /\ selected = <<>>
    /\ fetched = <<>> /\ distributor_names = <<>> /\ all_raw_plans = <<>>
    /\ plans = <<>> /\ filtered = <<>> /\ stats = NewStats(0)
    /\ filtered_plans = <<>> /\ all_plans_data = <<>> /\ errors = 0
    /\ requested = {} /\ warnings = <<>>
    /\ \E n \in 0..MaxFits, t \in 0..MaxTiers :
         \E heads \in [1..n -> Heads], flat \in [1..t -> TariffRates] :
            /\ \A k \in 1..t : flat[k].fit <= n
            /\ solarFit = solar_fit_list(heads, flat)
    /\ row = NoRow
    /\ tiers = <<>>
    /\ sheet = fit_columns(<<>>)
    /\ export = 0
    /\ credit = 0
    /\ CalcIdle
    /\ answer = NoAnswer

main_state == <<failure, cmdline, include_controlled_load, resolver, i, fetcher,
                filterer, processor, requested, warnings, answer>>

\* process_plan: the three solar fields of the row
SolarRow ==
    /\ pc = "solar_row"
    /\ row' = [min |-> extract_solar_fit_min(solarFit),
               max |-> extract_solar_fit_max(solarFit),
               details |-> extract_solar_fit_details(solarFit)]
    /\ pc' = "solar_sheet"
    /\ UNCHANGED <<main_state, calc, solarFit, tiers, sheet, export, credit>>

\* _write_calculator_sheet: one plan row
SolarSheet ==
    /\ pc = "solar_sheet"
    /\ tiers' = _parse_solar_fit_tiers(row.details)
    /\ sheet' = fit_columns(tiers')
    /\ pc' = "solar_input"
    /\ UNCHANGED <<main_state, calc, solarFit, row, export, credit>>

\* the user enters the daily export in B5 and the workbook recalculates
SolarRecalculate ==
    /\ pc = "solar_input"
    /\ \E e \in Exports :
         /\ export' = e * 10
         /\ credit' = solar_credit(sheet, e * 10)
    /\ pc' = "solar_done"
    /\ UNCHANGED <<main_state, calc, solarFit, row, tiers, sheet>>

NextSolar == SolarRow \/ SolarSheet \/ SolarRecalculate

SpecSolar == InitSolar /\ [][NextSolar]_vars

\* ------------------------------------------------------------------------
\* The charges of one plan, from the contract to the row (process_plan)
\* and to the cost columns of the calculator sheet
\* ------------------------------------------------------------------------
InitRates ==
    /\ pc = "plan_row"
    /\ MainIdle
    /\ \E pm \in {"TOU", "SR", "absent"}, n \in 0..MaxPeriods, t \in 0..MaxRates,
          cl \in ControlledLoads :
         \E heads \in [1..n -> SupplyCharges], flat \in [1..t -> BlockRates] :
            /\ \A k \in 1..t : flat[k].period <= n
            /\ contract = [pricingModel |-> pm,
                           tariffPeriod |-> tariff_periods(heads, flat),
                           controlledLoad |-> cl]
    /\ solarFit \in SolarSamples
    /\ row = NoRow
    /\ tiers = <<>>
    /\ sheet = fit_columns(<<>>)
    /\ export = 0
    /\ credit = 0
    /\ meta = <<>>
    /\ charges = NoCharges
    /\ cells = NoCells
    /\ inputs = NoInputs
    /\ costs = NoCosts

\* the contracts of one tariff period that carry the rates of their own
\* pricing model: touBlock rates for TOU, blockRate rates otherwise
InitCost ==
    /\ InitRates
    /\ Len(contract.tariffPeriod) <= 1
    /\ \A p \in DOMAIN contract.tariffPeriod :
          IF contract.pricingModel = "TOU"
          THEN contract.tariffPeriod[p].blockRate = <<>>
          ELSE \A b \in DOMAIN contract.tariffPeriod[p].touBlock :
                  contract.tariffPeriod[p].touBlock[b].blockRate = <<>>

\* process_plan: the row of one plan
PlanRow ==
    /\ pc = "plan_row"
    /\ charges' = plan_charges(contract)
    /\ row' = [min |-> extract_solar_fit_min(solarFit),
               max |-> extract_solar_fit_max(solarFit),
               details |-> extract_solar_fit_details(solarFit)]
    /\ pc' = "calc_row"
    /\ UNCHANGED <<main_state, solarFit, tiers, sheet, export, credit,
                   meta, contract, cells, inputs, costs>>

\* _write_calculator_sheet: the static cells of the plan's row
CalcRow ==
    /\ pc = "calc_row"
    /\ cells' = row_cells(charges)
    /\ tiers' = _parse_solar_fit_tiers(row.details)
    /\ sheet' = fit_columns(tiers')
    /\ pc' = "calc_input"
    /\ UNCHANGED <<main_state, solarFit, row, export, credit,
                   meta, contract, charges, inputs, costs>>

\* the user fills B4..B8 and the workbook recalculates columns N..S
Recalculate ==
    /\ pc = "calc_input"
    /\ \E b4 \in Usages, b5 \in Exports,
          b6 \in Range(PROFILE_NAMES) \cup {"Night Owl"},
          b7 \in {"Yes", "No"}, b8 \in LoadUsages :
         LET inp == [B4 |-> b4, B6 |-> b6, B7 |-> b7, B8 |-> b8]
             q == solar_credit(sheet, b5 * 10)
         IN /\ inputs' = inp
            /\ export' = b5 * 10
            /\ credit' = q
            /\ costs' = sheet_costs(cells, inp, q)
    /\ pc' = "calc_done"
    /\ UNCHANGED <<main_state, solarFit, row, tiers, sheet,
                   meta, contract, charges, cells>>

SpecRates == InitRates /\ [][PlanRow]_vars

NextCost == PlanRow \/ CalcRow \/ Recalculate

SpecCost == InitCost /\ [][NextCost]_vars

\* ------------------------------------------------------------------------
\* Properties of the distributor resolution
\* ------------------------------------------------------------------------
Terminal == pc \in {"done", "exit1", "crashed"}

Ids(s) == [n \in DOMAIN s |-> s[n].id]

Positive(p) == p.count > 0

PastProbing ==
    /\ discovered
    /\ pc \notin {"resolve", "probe"}
    /\ failure # "uncaught:probe_distributor_plans"

AutoEntry == [id |-> 0, name |-> Auto, plan_count |-> <<0>>]

\* C4: in the interactive path with more than one discovered distributor and
\* in the --dist all path, once probing is over every discovered distributor
\* has been probed, in order, and the available (selected) distributors are
\* exactly those whose probe returned a count > 0; a distributor whose probe
\* returned 0 or -1 is never available or selected.
C4_AvailableIffPositive ==
    /\ (mode = "interactive" /\ Len(distributors) > 1 /\ PastProbing) =>
          /\ Ids(probed) = Ids(distributors)
          /\ Ids(available) = Ids(SelectSeq(probed, Positive))
    /\ (mode = "all" /\ PastProbing) =>
          /\ Ids(probed) = Ids(distributors)
          /\ \/ Ids(selected) = Ids(SelectSeq(probed, Positive))
             \/ SelectSeq(probed, Positive) = <<>> /\ selected = <<AutoEntry>>
    /\ \A p \in DOMAIN probed :
          /\ \A n \in DOMAIN available :
                available[n].id = probed[p].id =>
                    probed[p].count > 0 /\ available[n].plan_count = <<probed[p].count>>
          /\ \A n \in DOMAIN selected :
                selected[n].id = probed[p].id => probed[p].count > 0

C4_Witness ==
    /\ mode = "interactive"
    /\ pc = "fetch"
    /\ Len(probed) = 2
    /\ probed[1].count = 0
    /\ probed[2].count > 0
    /\ Ids(selected) = <<probed[2].id>>

\* C5: probe_distributor_plans never raises: a probe whose request raised or
\* whose status is not 200 yields -1, any other probe yields the plan count,
\* and after a failed probe the remaining candidates are still probed.
C5_ProbeNeverRaises ==
    /\ failure # "uncaught:probe_distributor_plans"
    /\ \A p \in DOMAIN probed :
          probed[p].count =
              IF probed[p].resp.exc \/ probed[p].resp.status # 200
              THEN 0 - 1 ELSE probed[p].resp.plans
    /\ pc = "probe" => Len(probed) = i - 1
    /\ (probed # <<>> /\ pc # "probe") => Len(probed) = Len(distributors)

C5_Witness ==
    /\ pc = "fetch"
    /\ Len(probed) = 2
    /\ probed[1].resp.exc
    /\ probed[1].count = 0 - 1
    /\ probed[2].count > 0
    /\ Ids(selected) = <<probed[2].id>>

\* C6 as stated: whenever discovery returns no distributor, no plans are
\* fetched and the run ends in the "no coverage" failure, in every mode.
C6_NoCoverageEveryMode ==
    (discovered /\ distributors = <<>>) =>
        /\ fetched = <<>>
        /\ Terminal => (pc = "exit1" /\ failure = "no_coverage")

\* C6 amended: when discovery returns no distributor, the interactive path
\* ends in the "no coverage" failure without a probe or a fetch; with
\* --dist <id> the single entry for that id is selected and fetched; with
\* --dist all the run falls back to one fetch without a distributor id.
C6_NoCoverageInteractive ==
    (discovered /\ distributors = <<>>) =>
        /\ probed = <<>>
        /\ mode = "interactive" =>
              /\ fetched = <<>> /\ selected = <<>>
              /\ failure = "no_coverage"
              /\ pc \in {"check_selected", "exit1"}
        /\ mode = "id" =>
              /\ selected = <<[id |-> argDist, name |-> IdName(argDist),
                               plan_count |-> <<0>>]>>
              /\ Ids(fetched) \in {<<>>, <<argDist>>}
              /\ Terminal => Len(fetched) = 1
        /\ mode = "all" =>
              /\ selected \in {<<>>, <<AutoEntry>>}
              /\ Ids(fetched) \in {<<>>, <<0>>}
              /\ Terminal => Len(fetched) = 1

C6_Witness ==
    /\ mode = "interactive"
    /\ discovered /\ distributors = <<>>
    /\ pc = "exit1"
    /\ failure = "no_coverage"

AllProbesFailed ==
    /\ probed # <<>>
    /\ pc # "probe"
    /\ failure # "uncaught:probe_distributor_plans"
    /\ \A p \in DOMAIN probed : probed[p].count <= 0

\* C7 as stated: whenever every probe returned 0 or -1, no plan fetch is
\* issued and the run ends in the "no plans for any distributor" failure, in
\* the interactive path and in the --dist all path.
C7_NoPlansEveryPath ==
    AllProbesFailed =>
        /\ fetched = <<>>
        /\ Terminal => (pc = "exit1" /\ failure = "no_plans_any")

\* C7 amended: when every probe returned 0 or -1, the interactive path ends
\* in the "no plans for any distributor" failure without a fetch; the
\* --dist all path falls back to one fetch without a distributor id.
C7_NoPlansInteractive ==
    AllProbesFailed =>
        /\ mode = "interactive" =>
              /\ fetched = <<>> /\ selected = <<>> /\ available = <<>>
              /\ failure = "no_plans_any"
              /\ pc \in {"check_selected", "exit1"}
        /\ mode = "all" =>
              /\ selected = <<AutoEntry>>
              /\ Ids(fetched) \in {<<>>, <<0>>}
              /\ Terminal => Len(fetched) = 1

C7_Witness ==
    /\ mode = "interactive"
    /\ Len(probed) = 2
    /\ probed[1].count = 0 - 1
    /\ probed[2].count = 0
    /\ pc = "exit1"
    /\ failure = "no_plans_any"

\* C8: when the interactive path discovers exactly one distributor, it is the
\* selection, no probe is issued and no prompt is shown.
C8_SingleAutoSelect ==
    (mode = "interactive" /\ discovered /\ Len(distributors) = 1) =>
        /\ selected = distributors
        /\ probed = <<>>
        /\ ~prompted
        /\ pc \notin {"probe", "prompt"}

C8_Witness ==
    /\ mode = "interactive"
    /\ Len(distributors) = 1
    /\ pc = "fetch"
    /\ Ids(fetched) = Ids(distributors)

\* C9: once the interactive selection has returned with at least one
\* available distributor: if several are available the selection is one
\* member of the available list or the whole list, chosen at the prompt; if
\* exactly one is available it is the selection and no prompt was shown.
C9_OneOrAll ==
    (mode = "interactive" /\ available # <<>> /\ pc \notin {"probe", "prompt"}) =>
        IF Len(available) = 1
        THEN selected = available /\ ~prompted
        ELSE /\ prompted
             /\ \/ selected = available
                \/ \E n \in DOMAIN available : selected = <<available[n]>>

C9_Witness ==
    /\ mode = "interactive"
    /\ Len(available) = 2
    /\ prompted
    /\ selected = <<available[2]>>
    /\ pc = "fetch"

\* ------------------------------------------------------------------------
\* Malformed plans
\* ------------------------------------------------------------------------
RaisesInProcess(p) == p.shape # "ok"

Survives(p) ==
    /\ p.shape = "ok"
    /\ no_filter \/
         /\ \A t \in DOMAIN p.tariffPeriod : p.tariffPeriod[t] = 0
         /\ include_controlled_load \/ p.controlledLoad = 0

\* C10: a batch with a malformed plan does not abort the run, with filtering
\* enabled or disabled: once the batch is processed the error count is the
\* number of plans that could not be processed and every well-formed plan
\* that passes the filter has a row.
C10_MalformedSkipped ==
    (\E n \in DOMAIN all_raw_plans : ContractLookupRaises(all_raw_plans[n])) =>
        /\ pc # "crashed"
        /\ (pc \in {"export", "done"} \/ (pc = "exit1" /\ failure = "no_plans")) =>
              /\ errors = Len(SelectSeq(all_raw_plans, RaisesInProcess))
              /\ [n \in DOMAIN all_plans_data |-> all_plans_data[n].plan]
                   = SelectSeq(all_raw_plans, Survives)

\* ------------------------------------------------------------------------
\* Properties of the processing loop, the postcode check and the fetch loop
\* ------------------------------------------------------------------------
Shapes_(s) == [n \in DOMAIN s |-> s[n].shape]

\* C11 as stated: a plan that cannot be processed is signalled by a
\* MalformedPlanError; no raw KeyError / IndexError reaches the caller.
C11_MalformedPlanError ==
    \A w \in DOMAIN warnings :
        /\ warnings[w].exc = "MalformedPlanError"
        /\ warnings[w].exc \notin {"KeyError", "IndexError"}

\* C11 amended: process_plan lets the raw lookup failure reach its caller:
\* KeyError for a missing planData or contract key, IndexError for an empty
\* contract list; the processing loop of main catches it, counts it and
\* prints a warning naming the plan, "Unknown" when planData is missing.
C11_RawLookupFailure ==
    /\ \A w \in DOMAIN warnings :
          /\ warnings[w].shape \in {"noPlanData", "noContract"}
                => warnings[w].exc = "KeyError"
          /\ warnings[w].shape = "emptyContract" => warnings[w].exc = "IndexError"
          /\ warnings[w].shape = "noPlanData" => warnings[w].plan_name = "Unknown"
          /\ warnings[w].exc \in {"KeyError", "IndexError"}
    /\ pc # "crashed" => errors = Len(warnings)
    /\ (pc = "process" /\ i <= Len(filtered_plans) + 1) =>
          Shapes_(warnings)
            = Shapes_(SelectSeq(SubSeq(filtered_plans, 1, i - 1), RaisesInProcess))

C11_Witness ==
    /\ pc = "export"
    /\ Len(warnings) = 1
    /\ warnings[1].shape = "emptyContract"
    /\ warnings[1].exc = "IndexError"
    /\ Len(all_plans_data) = 1

\* C12: a run whose postcode is empty, not all digits or not 4 characters
\* long never issues a request: it leaves the postcode check by exit(1).
C12_NoRequestOnBadPostcode ==
    postcode # "ok" =>
        /\ requested = {}
        /\ fetched = <<>> /\ probed = <<>> /\ ~discovered
        /\ pc \in {"parse", "exit1"}
        /\ pc = "exit1" => failure = "invalid_postcode"

C12_Witness ==
    /\ postcode = "wronglen"
    /\ pc = "exit1"
    /\ failure = "invalid_postcode"
    /\ requested = {}

PastFetch ==
    \/ pc \in {"cl_prompt", "filter", "process", "export", "done"}
    \/ pc = "exit1" /\ failure \in {"no_plans", "export_error"}
    \/ pc = "crashed" /\ failure \in {"uncaught:filter_plans", "uncaught:main"}

RECURSIVE Merged(_)
Merged(fs) ==
    IF fs = <<>> THEN <<>> ELSE Merged(SubSeq(fs, 1, Len(fs) - 1)) \o fs[Len(fs)].result

RECURSIVE Total(_)
Total(fs) ==
    IF fs = <<>> THEN 0 ELSE Len(Head(fs).result) + Total(Tail(fs))

\* C13: a failed fetch contributes nothing and is not retried, the loop goes
\* on to the next selected distributor: at the end every selected distributor
\* has exactly one fetch, and the plans of every successful fetch, earlier or
\* later than the failure, are in all_raw_plans.
C13_FailedFetchSkipped ==
    /\ pc = "fetch" => Len(fetched) = i - 1
    /\ PastFetch => Ids(fetched) = Ids(selected)
    /\ \A k \in DOMAIN fetched :
          /\ ~fetched[k].ok => fetched[k].result = <<>>
          /\ \A n \in DOMAIN fetched[k].result :
                \E m \in DOMAIN all_raw_plans : all_raw_plans[m] = fetched[k].result[n]
    /\ Len(all_raw_plans) = Total(fetched)

C13_Witness ==
    /\ pc = "cl_prompt"
    /\ Len(fetched) = 2
    /\ ~fetched[1].ok
    /\ fetched[2].ok
    /\ all_raw_plans = fetched[2].result
    /\ all_raw_plans # <<>>

Position(id, s) == CHOOSE n \in DOMAIN s : s[n].id = id

\* C14: fetches are issued in the order of the selected list, which follows
\* the discovery order, and all_raw_plans is the concatenation of the fetch
\* results in that order.
C14_FetchOrder ==
    /\ Len(fetched) <= Len(selected)
    /\ Ids(fetched) = Ids(SubSeq(selected, 1, Len(fetched)))
    /\ all_raw_plans = Merged(fetched)
    /\ distributor_names = [n \in DOMAIN fetched |-> selected[n].name]
    /\ \A a, b \in DOMAIN selected :
          (a < b /\ mode \in {"interactive", "all"} /\ selected[a].id # 0) =>
              Position(selected[a].id, distributors) < Position(selected[b].id, distributors)
    /\ \A a, b \in DOMAIN all_raw_plans :
          a < b =>
              \E x, y \in DOMAIN selected :
                  /\ x <= y
                  /\ all_raw_plans[a].dist = selected[x].name
                  /\ all_raw_plans[b].dist = selected[y].name

C14_Witness ==
    /\ pc = "cl_prompt"
    /\ Len(selected) = 2
    /\ Len(fetched) = 2
    /\ fetched[1].result # <<>> /\ fetched[2].result # <<>>
    /\ all_raw_plans[1].dist = selected[1].name
    /\ all_raw_plans[Len(all_raw_plans)].dist = selected[2].name

\* C15: a run in which a plan survives every stage (it is well-formed and
\* passes the filter in force, or it has a row) does not end before the
\* export step.
C15_SurvivorReachesExport ==
    (/\ Terminal
     /\ \/ all_plans_data # <<>>
        \/ \E n \in DOMAIN all_raw_plans : Survives(all_raw_plans[n]))
        => (pc = "done" \/ failure = "export_error")

ReachedProcessing ==
    \/ pc \in {"process", "export", "done"}
    \/ pc = "exit1" /\ failure \in {"no_plans", "export_error"}
    \/ pc = "crashed" /\ failure = "uncaught:main"

HasDemandCharge(p) == \E t \in DOMAIN p.tariffPeriod : p.tariffPeriod[t] # 0

\* C16 as stated: whatever the switches, no plan with a demand charge is
\* handed to process_plan.
C16_DemandNeverProcessed ==
    \A n \in DOMAIN filtered_plans : ~HasDemandCharge(filtered_plans[n])

\* C16 amended: without --no-filter no plan with a demand charge is handed to
\* process_plan and every such plan is counted under demand_filtered; with
\* --no-filter every fetched plan is handed to process_plan.
C16_DemandExcludedUnlessNoFilter ==
    /\ ~no_filter =>
          /\ \A n \in DOMAIN filtered_plans : ~HasDemandCharge(filtered_plans[n])
          /\ ReachedProcessing =>
                /\ ~include_demand
                /\ stats.demand_filtered
                     = Len(SelectSeq(all_raw_plans, HasDemandCharge))
    /\ (no_filter /\ ReachedProcessing) => filtered_plans = all_raw_plans

C16_Witness ==
    /\ ~no_filter
    /\ pc = "export"
    /\ stats.demand_filtered = 1
    /\ Len(all_raw_plans) = 2
    /\ Len(all_plans_data) = 1

\* ------------------------------------------------------------------------
\* Properties of the solar fields and of the solar credit
\* ------------------------------------------------------------------------
SheetWritten == pc \in {"solar_input", "solar_done"}

\* C17: the credit per day of a plan whose first parsed tier is capped, a
\* plan with only that one capped tier included, is
\* min(export, cap) x tier1Rate + max(export - cap, 0) x tier2Rate, with
\* tier2Rate = 0 when there is no further tier; for a flat or absent FIT it
\* is export x tier1Rate.
C17_CappedFirstTierCredit ==
    pc = "solar_done" =>
        IF tiers # <<>> /\ tiers[1].volume > 0
        THEN credit = Least(export, tiers[1].volume) * tiers[1].rate
                        + Greatest(export - tiers[1].volume, 0)
                            * (IF Len(tiers) >= 2 THEN tiers[2].rate ELSE 0)
        ELSE credit = export * (IF tiers # <<>> THEN tiers[1].rate ELSE 0)

CappedFirst(ts) ==
    \A a, b \in DOMAIN ts :
        a < b => /\ ts[a].volume = 0 => ts[b].volume = 0
                 /\ ts[b].volume > 0 => ts[a].volume >= ts[b].volume

\* the (rate, cap) pairs of the retailer tiers with a positive rate, in 1e-05
RetailerTiers ==
    Flatten([n \in DOMAIN solarFit |->
        IF solarFit[n].type = "G" THEN <<>>
        ELSE LET priced == SelectSeq(solarFit[n].singleTariffRates,
                                     LAMBDA sr : sr.unitPrice.v > 0) IN
               [k \in DOMAIN priced |->
                   [rate |-> Micro(priced[k].unitPrice),
                    volume |-> Micro(priced[k].volume)]]])

ParsedTiers ==
    [n \in DOMAIN tiers |->
        [rate |-> tiers[n].rate * 10000, volume |-> tiers[n].volume * 10000]]

Count(s, x) == Cardinality({n \in DOMAIN s : s[n] = x})

\* C18: parsing the description gives back exactly the multiset of
\* (rate, cap) pairs of the retailer tiers with a positive rate, capped tiers
\* first by descending cap and uncapped tiers last; the sentinel parses to
\* the empty list.
C18_TierRoundTrip ==
    SheetWritten =>
        /\ Len(ParsedTiers) = Len(RetailerTiers)
        /\ \A n \in DOMAIN RetailerTiers :
              Count(ParsedTiers, RetailerTiers[n]) = Count(RetailerTiers, RetailerTiers[n])
        /\ CappedFirst(tiers)
        /\ row.details = NoSolarFit => tiers = <<>>

\* the credit when the last tier takes whatever is left after the caps of
\* the tiers before it
RECURSIVE RemainderCredit(_, _)
RemainderCredit(ts, left) ==
    IF ts = <<>> THEN 0
    ELSE IF Len(ts) = 1 THEN left * ts[1].rate
    ELSE Least(left, ts[1].volume) * ts[1].rate
           + RemainderCredit(Tail(ts), left - Least(left, ts[1].volume))

\* C19: the parsed tiers are ordered capped before uncapped, capped ones by
\* descending cap, and the credit applies the rate of the last tier of the
\* list to the export left after the caps before it, whatever the length of
\* the list.
C19_LastTierIsRemainder ==
    /\ SheetWritten => CappedFirst(tiers)
    /\ pc = "solar_done" => credit = RemainderCredit(tiers, export)

ZeroValued(fit) ==
    /\ fit.rate = None \/ fit.rate.v = 0
    /\ \A k \in DOMAIN fit.singleTariffRates : fit.singleTariffRates[k].unitPrice.v = 0

Retailer(fits) == SelectSeq(fits, LAMBDA fit : fit.type # "G")

\* C20: type "G" entries contribute nothing to the minimum, the maximum or
\* the description (the three fields are those of the list without them),
\* only positive rates are kept, and a contract whose entries are all type
\* "G" or zero-valued gets 0.0, 0.0 and "No solar feed-in tariff".
C20_GovernmentExcluded ==
    pc # "solar_row" =>
        /\ row.min = extract_solar_fit_min(Retailer(solarFit))
        /\ row.max = extract_solar_fit_max(Retailer(solarFit))
        /\ row.details = extract_solar_fit_details(Retailer(solarFit))
        /\ (\A n \in DOMAIN solarFit :
               solarFit[n].type = "G" \/ ZeroValued(solarFit[n]))
             => /\ row.min = 0 /\ row.max = 0
                /\ row.details = NoSolarFit
        /\ row.max > 0 =>
             \E n \in DOMAIN solarFit :
                 solarFit[n].type # "G" /\ ~ZeroValued(solarFit[n])
        /\ row.details # NoSolarFit =>
             \E n \in DOMAIN solarFit :
                 /\ solarFit[n].type # "G"
                 /\ \E k \in DOMAIN solarFit[n].singleTariffRates :
                        solarFit[n].singleTariffRates[k].unitPrice.v > 0
        /\ row.min \in Nat /\ row.max \in Nat /\ row.details # <<>>

C20_Witness ==
    /\ pc = "solar_done"
    /\ Len(solarFit) = 2
    /\ solarFit[1].type = "G"
    /\ solarFit[1].rate = Num("float", 440)
    /\ solarFit[2].type = "R"
    /\ solarFit[2].rate = None
    /\ Len(solarFit[2].singleTariffRates) = 1
    /\ solarFit[2].singleTariffRates[1].unitPrice = Num("int", 0)
    /\ row = [min |-> 0, max |-> 0, details |-> NoSolarFit]

\* ------------------------------------------------------------------------
\* Properties of discovery, of the processing loop, of the prompt loop and
\* of an explicit distributor id
\* ------------------------------------------------------------------------
MetaIds(data) == {SupplyAreas(data)[n] : n \in DOMAIN SupplyAreas(data)}

\* C26: fetch_distributors returns each id at most once, returns every id the
\* meta response mentions, sorted by name ascending, and returns the empty
\* list, without failing, for an empty response.
C26_DiscoverDedupSorted ==
    pc = "discovered" =>
        /\ \A a, b \in DOMAIN distributors :
              distributors[a].id = distributors[b].id => a = b
        /\ {distributors[n].id : n \in DOMAIN distributors} = MetaIds(meta)
        /\ \A a, b \in DOMAIN distributors :
              a < b => NameKey(distributors[a]) <= NameKey(distributors[b])
        /\ SupplyAreas(meta) = <<>> => distributors = <<>>
        /\ failure = "none"

C26_Witness ==
    /\ pc = "discovered"
    /\ Len(SupplyAreas(meta)) = 3
    /\ SupplyAreas(meta)[1] = 1 /\ SupplyAreas(meta)[2] = 2 /\ SupplyAreas(meta)[3] = 1
    /\ Len(distributors) = 2
    /\ distributors[1].id = 2 /\ distributors[2].id = 1

LoopDone ==
    \/ pc \in {"export", "done"}
    \/ pc = "exit1" /\ failure \in {"no_plans", "export_error"}

\* C28: when the processing loop has run over the filtered plans, rows +
\* errors = filtered plans, and the rows are those of the plans process_plan
\* accepted, one each, in the order of the filtered list.
C28_NormalizationAccounting ==
    /\ (pc = "process" /\ i <= Len(filtered_plans) + 1) =>
          Len(all_plans_data) + errors = i - 1
    /\ LoopDone =>
          LET accepted == SelectSeq(filtered_plans, LAMBDA p : ~RaisesInProcess(p)) IN
            /\ Len(all_plans_data) + errors = Len(filtered_plans)
            /\ Len(all_plans_data) = Len(accepted)
            /\ \A n \in DOMAIN all_plans_data : all_plans_data[n].plan = accepted[n]

C28_Witness ==
    /\ pc = "export"
    /\ Len(filtered_plans) = 2
    /\ RaisesInProcess(filtered_plans[1])
    /\ errors = 1
    /\ Len(all_plans_data) = 1
    /\ all_plans_data[1].plan = filtered_plans[2]

ValidAnswer(a, avail) ==
    \/ a.kind = "A"
    \/ a.kind = "int" /\ 1 <= a.n /\ a.n <= Len(avail)

\* C29: at the prompt an invalid line leaves the loop where it is, with the
\* available list and the selection unchanged; a valid line ends the loop
\* with the selection it names; and when a valid line eventually arrives the
\* prompt is left.
C29_PromptLoop ==
    /\ [][pc = "prompt" =>
            /\ available' = available
            /\ IF ValidAnswer(answer', available)
               THEN /\ pc' = "check_selected"
                    /\ selected' = IF answer'.kind = "A" THEN available
                                   ELSE <<available[answer'.n]>>
               ELSE /\ pc' = "prompt"
                    /\ selected' = selected]_vars
    /\ (pc = "prompt") ~> (pc = "check_selected")

C29_Witness ==
    /\ pc = "prompt"
    /\ prompted
    /\ answer.kind = "int"
    /\ answer.n = Len(available) + 1
    /\ selected = <<>>

\* C30: with --dist <id> the selection is the one entry carrying that id,
\* whether or not discovery returned the id; no probe is issued; the entry is
\* named "ID <id>" when discovery did not return it, and it is fetched.
C30_ExplicitIdUnchecked ==
    (mode = "id" /\ discovered) =>
        /\ Len(selected) = 1
        /\ selected[1].id = argDist
        /\ selected[1].name =
              IF \E n \in DOMAIN distributors : distributors[n].id = argDist
              THEN MetaName(argDist) ELSE IdName(argDist)
        /\ probed = <<>> /\ "probe" \notin requested
        /\ PastFetch => Ids(fetched) = <<argDist>>

C30_Witness ==
    /\ mode = "id"
    /\ discovered
    /\ \A n \in DOMAIN distributors : distributors[n].id # argDist
    /\ PastFetch
    /\ Ids(fetched) = <<argDist>>
    /\ fetched[1].ok
    /\ selected[1].name = IdName(argDist)

\* ------------------------------------------------------------------------
\* Consistency of the solar fields of one plan
\* ------------------------------------------------------------------------
FlatRated(fit) == fit.type # "G" /\ fit.rate # None /\ fit.rate.v > 0

\* C27: the maximum is positive exactly when the description is not the
\* sentinel, that is exactly when the parsed tier list is non-empty; every
\* rate counted in the minimum and maximum is the rate of a parsed tier; and a
\* retailer entry given as a flat rate yields a tier and a positive credit.
C27_SolarFieldsConsistent ==
    pc = "solar_done" =>
        /\ (row.max > 0) <=> (row.details # NoSolarFit)
        /\ (row.details # NoSolarFit) <=> (tiers # <<>>)
        /\ \A r \in Range(_collect_solar_fit_rates(solarFit)) :
              \E n \in DOMAIN tiers : tiers[n].rate * 10000 = Micro(r)
        /\ (\E n \in DOMAIN solarFit : FlatRated(solarFit[n]))
              => tiers # <<>> /\ credit > 0

\* one retailer entry with the flat rate 44.0 and no singleTariffRates is
\* counted in the minimum and maximum and is absent from everything else
FlatRateOnly ==
    (/\ pc = "solar_done"
     /\ Len(solarFit) = 1
     /\ FlatRated(solarFit[1])
     /\ solarFit[1].singleTariffRates = <<>>)
      => /\ row.max = 4400 /\ row.min = 4400
         /\ row.details = NoSolarFit
         /\ tiers = <<>>
         /\ credit = 0

\* ------------------------------------------------------------------------
\* Properties of the rates and charges of a row and of the sheet's costs
\* ------------------------------------------------------------------------
RowBuilt == pc \in {"calc_row", "calc_input", "calc_done"}

\* C21: a row has a minimum usage rate exactly when it has a maximum, and then
\* minimum <= maximum; the peak and off-peak rates are null unless the pricing
\* model is TOU; for a TOU row the peak rate is the maximum and the off-peak
\* rate the minimum, so off-peak <= peak.
C21_RateBounds ==
    RowBuilt =>
        /\ (charges.usage_min = Null) <=> (charges.usage_max = Null)
        /\ (charges.usage_min = Null) <=> (_collect_usage_rates(contract) = <<>>)
        /\ charges.usage_min # Null => charges.usage_min[1] <= charges.usage_max[1]
        /\ charges.pricing_model # "TOU" =>
              charges.peak = Null /\ charges.offpeak = Null
        /\ charges.pricing_model = "TOU" =>
              /\ charges.peak = charges.usage_max
              /\ charges.offpeak = charges.usage_min
              /\ charges.peak # Null => charges.offpeak[1] <= charges.peak[1]

C21_Witness ==
    /\ RowBuilt
    /\ contract.pricingModel = "SR"
    /\ Len(contract.tariffPeriod) >= 1
    /\ Len(contract.tariffPeriod[1].blockRate) = 2
    /\ charges.usage_min = Some(104)
    /\ charges.usage_max = Some(3850)
    /\ charges.peak = Null

\* the ex-GST prices of the first tariff period: of its touBlock entries for
\* a TOU contract, of its blockRate list otherwise
FirstPeriodPrices(c) ==
    IF c.tariffPeriod = <<>> THEN {}
    ELSE LET tp == c.tariffPeriod[1] IN
           IF c.pricingModel = "TOU"
           THEN UNION {{tp.touBlock[b].blockRate[k].unitPrice :
                          k \in DOMAIN tp.touBlock[b].blockRate} : b \in DOMAIN tp.touBlock}
           ELSE {tp.blockRate[k].unitPrice : k \in DOMAIN tp.blockRate}

FirstPeriodOnly(c) ==
    [c EXCEPT !.tariffPeriod = SubSeq(@, 1, Least(1, Len(@)))]

IsGreatest(opt, S) == opt # Null /\ opt[1] \in S /\ \A x \in S : x <= opt[1]

IsLeast(opt, S) == opt # Null /\ opt[1] \in S /\ \A x \in S : x >= opt[1]

\* C22: the rates of a row are those of the first tariff period alone: the
\* charges are what the contract cut down to its first period gives; for a
\* TOU contract the peak is the greatest and the off-peak the least of the
\* GST-adjusted prices of all touBlock entries of that period ([20.0, 35.0]
\* gives 38.5 and 22.0); otherwise the minimum and maximum are those of the
\* period's blockRate prices.
C22_FirstPeriodRates ==
    RowBuilt =>
        LET prices == FirstPeriodPrices(contract)
            adjusted == {round_gst(v) : v \in prices}
        IN /\ charges = plan_charges(FirstPeriodOnly(contract))
           /\ (contract.pricingModel = "TOU" /\ prices # {}) =>
                 IsGreatest(charges.peak, adjusted) /\ IsLeast(charges.offpeak, adjusted)
           /\ (contract.pricingModel = "TOU" /\ prices = {2000, 3500}) =>
                 charges.peak = Some(3850) /\ charges.offpeak = Some(2200)
           /\ (contract.pricingModel # "TOU" /\ prices # {}) =>
                 /\ IsGreatest(charges.usage_max, adjusted)
                 /\ IsLeast(charges.usage_min, adjusted)
           /\ prices = {} => charges.usage_max = Null /\ charges.usage_min = Null

C22_Witness ==
    /\ RowBuilt
    /\ contract.pricingModel = "TOU"
    /\ Len(contract.tariffPeriod) = 2
    /\ FirstPeriodPrices(contract) = {2000}
    /\ Len(contract.tariffPeriod[2].touBlock[1].blockRate) = 1
    /\ contract.tariffPeriod[2].touBlock[1].blockRate[1].unitPrice = 3500
    /\ charges.peak = Some(2200)
    /\ charges.offpeak = Some(2200)

\* out is a hundredth nearest to 1.1 x v
Adjusted(out, v) == 10 * out - 11 * v \in (0 - 5)..5

\* C23: the supply charge, the usage rates, the controlled-load rate and the
\* controlled-load supply charge of a row are their ex-GST source values
\* times 1.1 rounded to the nearest hundredth (90.0 gives 99.0, 25.0 gives
\* 27.5), and the solar feed-in minimum and maximum are the source rates
\* rounded to the hundredth without the multiplier.
C23_GstApplied ==
    RowBuilt =>
        /\ charges.supply # Null =>
              /\ Adjusted(charges.supply[1], contract.tariffPeriod[1].dailySupplyCharge[1])
              /\ contract.tariffPeriod[1].dailySupplyCharge = Some(9000) =>
                    charges.supply = Some(9900)
        /\ charges.usage_max # Null =>
              /\ \E v \in FirstPeriodPrices(contract) :
                    /\ \A w \in FirstPeriodPrices(contract) : w <= v
                    /\ Adjusted(charges.usage_max[1], v)
                    /\ v = 2500 => charges.usage_max = Some(2750)
              /\ \E v \in FirstPeriodPrices(contract) :
                    /\ \A w \in FirstPeriodPrices(contract) : w >= v
                    /\ Adjusted(charges.usage_min[1], v)
        /\ (contract.controlledLoad # <<>>
              /\ contract.controlledLoad[1].singleRate.rates # <<>>) =>
              Adjusted(charges.cl_rate,
                       contract.controlledLoad[1].singleRate.rates[1].unitPrice)
        /\ contract.controlledLoad # <<>> =>
              Adjusted(charges.cl_supply,
                       contract.controlledLoad[1].singleRate.dailySupplyCharge)
        /\ _collect_solar_fit_rates(solarFit) # <<>> =>
              /\ 1000 * row.max - Micro(max(_collect_solar_fit_rates(solarFit)))
                    \in (0 - 500)..500
              /\ 1000 * row.min - Micro(min(_collect_solar_fit_rates(solarFit)))
                    \in (0 - 500)..500

C23_Witness ==
    /\ RowBuilt
    /\ charges.supply = Some(9900)
    /\ FirstPeriodPrices(contract) = {2500, 95}
    /\ charges.usage_max = Some(2750)
    /\ charges.usage_min = Some(104)
    /\ charges.cl_rate = 2030
    /\ charges.cl_supply = 9900
    /\ Len(solarFit) = 1
    /\ Len(solarFit[1].singleTariffRates) = 2
    /\ row.max = 1000
    /\ row.min = 300

\* C24: the controlled-load cost of a row is B8 x CL rate + CL supply when B7
\* is "Yes" and 0 otherwise, the net cost is supply + usage cost - solar
\* credit + controlled-load cost, and with B7 = "No" the net cost is supply +
\* usage cost - solar credit whatever B8, the CL rate and the CL supply are.
C24_ControlledLoadGated ==
    pc = "calc_done" =>
        LET E == or0(charges.supply) * 100
            Q == credit * 100
        IN /\ costs.R = IF inputs.B7 = "Yes"
                        THEN (inputs.B8 * charges.cl_rate + charges.cl_supply) * 100
                        ELSE 0
           /\ costs.S = E + costs.P - Q + costs.R
           /\ inputs.B7 = "No" => costs.S = E + costs.P - Q

C24_Witness ==
    /\ pc = "calc_done"
    /\ inputs.B7 = "No"
    /\ inputs.B8 = 8
    /\ charges.cl_rate = 2030
    /\ charges.cl_supply = 9900
    /\ charges.supply = Some(9900)
    /\ credit > 0
    /\ costs.P > 0
    /\ costs.R = 0
    /\ costs.S = 990000 + costs.P - credit * 100

\* C25: every profile of the table has peak + off-peak = 100%; a TOU row
\* takes the pair of the profile named in B6, and 50% / 50% for a name that
\* is not in the table, and its usage cost is B4 x (peak% x peak rate +
\* off-peak% x off-peak rate); any other row costs B4 x maximum usage rate
\* whatever the profile.
C25_ProfileUsageCost ==
    /\ \A n \in DOMAIN USAGE_PROFILES :
          USAGE_PROFILES[n].peak_pct + USAGE_PROFILES[n].offpeak_pct = 100
    /\ pc = "calc_done" =>
          IF charges.pricing_model = "TOU"
          THEN /\ costs.N + costs.O = 100
               /\ \A n \in DOMAIN USAGE_PROFILES :
                     inputs.B6 = USAGE_PROFILES[n].name =>
                        /\ costs.N = USAGE_PROFILES[n].peak_pct
                        /\ costs.O = USAGE_PROFILES[n].offpeak_pct
               /\ inputs.B6 \notin Range(PROFILE_NAMES) => costs.N = 50 /\ costs.O = 50
               /\ costs.P = inputs.B4 * (costs.N * or0(charges.peak)
                                          + costs.O * or0(charges.offpeak))
          ELSE costs.P = inputs.B4 * or0(charges.usage_max) * 100

C25_Witness ==
    /\ pc = "calc_done"
    /\ charges.pricing_model = "TOU"
    /\ charges.peak = Some(3850)
    /\ charges.offpeak = Some(2200)
    /\ inputs.B6 = "Night Owl"
    /\ inputs.B4 = 20
    /\ costs.N = 50 /\ costs.O = 50
    /\ costs.P = 6050000

====
